---- MODULE Spec2Model ----
(***************************************************************************)
(* Model of the Google AI Creative Tools MCP server: one tool invocation   *)
(* is followed from the service call to its returned response or thrown    *)
(* error.  Covered: the long-poll loops of the video and music services,   *)
(* the predict-style service operations and their error wrapping, and the  *)
(* sequential batch of media operations; the start of the process, the     *)
(* dispatch of a tools/call request, the termination signals, and a second *)
(* merge request in flight on the same server.                             *)
(*                                                                         *)
(* An action is one resumption of the async code: it runs from the await   *)
(* that has just completed up to the next await, a return or a throw.      *)
(* Time is in milliseconds; texts are sequences of string pieces.          *)
(***************************************************************************)
EXTENDS Integers, Sequences, FiniteSets, TLC

VARIABLES
    tool,        \* name of the tool of this invocation (request.params.name)
    request,     \* its arguments (request.params.arguments)
    pc,          \* the await the invocation is suspended at, or its end
    elapsed,     \* Date.now() - startTime of the running poller
    polls,       \* status requests issued by the poller so far
    reply,       \* statusResponse.data of the last status request
    prediction,  \* the prediction handed to process*Result
    predictions, \* the predictions list an image or speech method walks
    item,        \* loop index i inside the running service method
    produced,    \* the output list that method has built so far
    index,       \* loop index i of a multi-item tool (batch, multi-part)
    collected,   \* what that loop has gathered (results, allMusicFiles)
    trace,       \* batchProcess: operations started and ended, timers set
    raised,      \* the error the catch block entered last was given
    outcome,     \* what the service method gave the tool handler
    answer,      \* what the tools/call handler gave the MCP client
    inflight,    \* external calls of the invocation started and not completed
    timer,       \* ms of the setTimeout the invocation sleeps on, 0: none
    env,         \* process.env as main reads it
    exit,        \* process.exit: its code and what called it
    listFile,    \* output/merge_list.txt: whose file list it holds
    concatList,  \* the file list the ffmpeg concat run of the invocation read
    peer,        \* a second merge request in flight on the same server
    body         \* the request body of the text:synthesize request sent

vars ==
    <<tool, request, pc, elapsed, polls, reply, prediction, predictions,
      item, produced, index, collected, trace, raised, outcome, answer,
      inflight, timer, env, exit, listFile, concatList, peer, body>>

(***************************************************************************)
(* Bounds of the exploration.                                              *)
(***************************************************************************)
\* an external call (HTTP request, file write, download) or the lateness of
\* a timer takes 0..MaxLatencySteps steps of 10 seconds
MaxLatencySteps == 1
\* longest predictions list of an upstream reply
MaxPredictions == 2
\* longest operations list of a batch
MaxBatch == 3

Latencies == {k * 10 * 1000 : k \in 0..MaxLatencySteps}

\* sizes fs.stat may report for a written file
Sizes == {0, 1024}

(***************************************************************************)
(* Errors.  kind tells which of handleError's three branches an error      *)
(* takes: "response" has error.response, "request" has error.request only, *)
(* "other" has neither (every Error made with new Error).                  *)
(***************************************************************************)
NoText == <<>>

Error(message) ==
    [kind |-> "other", message |-> message,
     apiMessage |-> NoText, statusText |-> NoText, status |-> ""]

ResponseError(apiMessage, statusText, status) ==
    [kind |-> "response",
     message |-> <<"Request failed with status code ", status>>,
     apiMessage |-> apiMessage, statusText |-> statusText, status |-> status]

RequestError(message) ==
    [kind |-> "request", message |-> message,
     apiMessage |-> NoText, statusText |-> NoText, status |-> ""]

\* failures an axios call can end with
HttpErrors ==
    { ResponseError(<<"Quota exceeded">>, <<"Too Many Requests">>, "429"),
      ResponseError(NoText, <<"Internal Server Error">>, "500"),
      RequestError(<<"socket hang up">>) }

\* handleError without its error.response and error.request branches
handleErrorMessageOnly(error, operation) ==
    [kind |-> "other", message |-> <<operation, " failed: ">> \o error.message,
     apiMessage |-> <<>>, statusText |-> <<>>, status |-> ""]

\* BaseGoogleAIService.handleError: the error it throws
handleError(error, operation) ==
    IF error.kind = "response"
    THEN Error(<<operation, " failed: ">>
               \o (IF error.apiMessage # NoText THEN error.apiMessage
                                                ELSE error.statusText)
               \o <<" (Status: ", error.status, ")">>)
    ELSE IF error.kind = "request"
    THEN Error(<<operation, " failed: ", "Network error - ">> \o error.message)
    ELSE Error(<<operation, " failed: ">> \o error.message)

NoError ==
    [kind |-> "none", message |-> NoText,
     apiMessage |-> NoText, statusText |-> NoText, status |-> ""]

(***************************************************************************)
(* Requests of the video and music tools.  A prompt is a token standing    *)
(* for a text of the length PromptLength gives; 0, "" and <<>> are the     *)
(* absent (falsy) values of optional fields.                               *)
(***************************************************************************)
PromptLength(prompt) ==
    CASE prompt = "" -> 0
      [] prompt = "sunset" -> 6
      [] prompt = "P1001" -> 1001
      [] prompt = "P2001" -> 2001
      [] prompt = "P5001" -> 5001
      [] OTHER -> 1

Valid == NoText

\* VeoService.validateRequest: the message of the error it throws, or Valid
VeoValidateRequest(req) ==
    IF req.prompt = "" THEN <<"Prompt is required for video generation">>
    ELSE IF PromptLength(req.prompt) > 2000
    THEN <<"Prompt must be 2000 characters or less">>
    ELSE IF req.duration # 0 /\ (req.duration < 2 \/ req.duration > 120)
    THEN <<"Duration must be between 2 and 120 seconds">>
    ELSE IF req.resolution # "" /\ req.resolution \notin {"720p", "1080p", "4K"}
    THEN <<"Resolution must be one of: ", "720p, 1080p, 4K">>
    ELSE IF req.fps # 0 /\ req.fps \notin {24, 30, 60}
    THEN <<"FPS must be one of: ", "24, 30, 60">>
    ELSE Valid

\* LyriaService.validateRequest
LyriaValidateRequest(req) ==
    IF req.prompt = "" THEN <<"Prompt is required for music generation">>
    ELSE IF PromptLength(req.prompt) > 1000
    THEN <<"Prompt must be 1000 characters or less">>
    ELSE IF req.duration # 0 /\ (req.duration < 10 \/ req.duration > 300)
    THEN <<"Duration must be between 10 and 300 seconds">>
    ELSE IF req.genre # "" /\ req.genre \notin
            {"pop", "rock", "classical", "jazz", "electronic", "ambient",
             "hip-hop", "country"}
    THEN <<"Genre must be one of: ",
           "pop, rock, classical, jazz, electronic, ambient, hip-hop, country">>
    ELSE IF req.mood # "" /\ req.mood \notin
            {"happy", "sad", "energetic", "calm", "mysterious", "dramatic",
             "romantic"}
    THEN <<"Mood must be one of: ",
           "happy, sad, energetic, calm, mysterious, dramatic, romantic">>
    ELSE IF req.tempo # 0 /\ (req.tempo < 60 \/ req.tempo > 200)
    THEN <<"Tempo (BPM) must be between 60 and 200">>
    ELSE Valid

VeoBase == [prompt |-> "sunset", duration |-> 5, resolution |-> "", fps |-> 30]

\* generate_video arguments tried: a valid request and one-field changes
VeoRequests ==
    {VeoBase}
    \cup {[VeoBase EXCEPT !.prompt = p] : p \in {"", "P1001", "P2001"}}
    \cup {[VeoBase EXCEPT !.duration = d] : d \in {1, 121}}
    \cup {[VeoBase EXCEPT !.resolution = r] : r \in {"8K"}}
    \cup {[VeoBase EXCEPT !.fps = f] : f \in {25}}

LyriaBase ==
    [prompt |-> "sunset", duration |-> 30, genre |-> "jazz", mood |-> "",
     tempo |-> 0]

LyriaRequests ==
    {LyriaBase}
    \cup {[LyriaBase EXCEPT !.prompt = p] : p \in {"", "P1001"}}
    \cup {[LyriaBase EXCEPT !.duration = d] : d \in {9, 301}}
    \cup {[LyriaBase EXCEPT !.genre = g] : g \in {"polka"}}
    \cup {[LyriaBase EXCEPT !.mood = m] : m \in {"bored"}}
    \cup {[LyriaBase EXCEPT !.tempo = t] : t \in {59, 201}}

\* ImagenService.validateRequest
ImagenValidateRequest(req) ==
    IF req.prompt = "" THEN <<"Prompt is required for image generation">>
    ELSE IF PromptLength(req.prompt) > 1000
    THEN <<"Prompt must be 1000 characters or less">>
    ELSE IF req.width # 0 /\ (req.width < 64 \/ req.width > 2048)
    THEN <<"Width must be between 64 and 2048 pixels">>
    ELSE IF req.height # 0 /\ (req.height < 64 \/ req.height > 2048)
    THEN <<"Height must be between 64 and 2048 pixels">>
    ELSE IF req.numImages # 0 /\ (req.numImages < 1 \/ req.numImages > 8)
    THEN <<"Number of images must be between 1 and 8">>
    ELSE Valid

\* ChirpService.validateRequest
ChirpValidateRequest(req) ==
    IF req.prompt = "" THEN <<"Text prompt is required for speech generation">>
    ELSE IF PromptLength(req.prompt) > 5000
    THEN <<"Text must be 5000 characters or less">>
    ELSE IF req.voice # "" /\ req.voice \notin
            {"male", "female", "child", "elderly"}
    THEN <<"Voice must be one of: ", "male, female, child, elderly">>
    ELSE IF req.language # "" /\ req.language \notin
            {"en", "ja", "es", "fr", "de", "it", "pt", "ru", "ko", "zh"}
    THEN <<"Language must be one of: ",
           "en, ja, es, fr, de, it, pt, ru, ko, zh">>
    ELSE IF req.emotion # "" /\ req.emotion \notin
            {"neutral", "happy", "sad", "excited", "calm", "angry"}
    THEN <<"Emotion must be one of: ",
           "neutral, happy, sad, excited, calm, angry">>
    ELSE Valid

\* given: the optional numeric fields the arguments hold; a field that is
\* not given reads as undefined, which is falsy as 0 is, and has the value 0
\* here
ImagenBase ==
    [prompt |-> "sunset", width |-> 1024, height |-> 1024, numImages |-> 2,
     given |-> {"width", "height", "numImages"}]

ImagenRequests ==
    {ImagenBase}
    \cup {[ImagenBase EXCEPT !.prompt = p] : p \in {"", "P1001"}}
    \cup {[ImagenBase EXCEPT !.width = w] : w \in {0, 63, 2049}}
    \cup {[ImagenBase EXCEPT !.height = h] : h \in {0, 63, 2049}}
    \cup {[ImagenBase EXCEPT !.numImages = n] : n \in {0, 9}}
    \cup {[ImagenBase EXCEPT ![f] = 0, !.given = @ \ {f}] :
             f \in {"width", "height", "numImages"}}

ChirpBase ==
    [prompt |-> "sunset", voice |-> "", language |-> "ja", emotion |-> "happy"]

ChirpRequests ==
    {ChirpBase}
    \cup {[ChirpBase EXCEPT !.prompt = p] : p \in {"", "P5001"}}
    \cup {[ChirpBase EXCEPT !.voice = v] : v \in {"robot"}}
    \cup {[ChirpBase EXCEPT !.language = l] : l \in {"xx"}}
    \cup {[ChirpBase EXCEPT !.emotion = e] :
             e \in {"", "bored", "neutral", "angry"}}

\* a part of generate_multipart_music
GoodPart == [prompt |-> "sunset", duration |-> 30, mood |-> "calm"]
BadPart == [prompt |-> "sunset", duration |-> 5, mood |-> "calm"]

\* generate_multipart_music arguments tried
MultiPartRequests ==
    {[parts |-> l, options |-> [genre |-> "jazz", tempo |-> 0]] :
        l \in {<<>>, <<GoodPart>>, <<BadPart>>, <<GoodPart, GoodPart>>,
               <<GoodPart, BadPart>>}}

\* generateMultiPartMusic: partRequest
PartRequest(part, options) ==
    [prompt |-> part.prompt, duration |-> part.duration, mood |-> part.mood,
     genre |-> options.genre, tempo |-> options.tempo]

\* generateLongFormSpeech: maxChunkSize
maxChunkSize == 4000

RECURSIVE SplitFrom(_, _, _, _, _)
\* splitTextIntoChunks, the for loop from sentence i on with the chunks
\* pushed and the length of currentChunk; a text is the list of the lengths
\* of its trimmed sentences (0: a blank one); every sentence gets its '.'
SplitFrom(text, i, chunks, currentChunk, maxSize) ==
    IF i > Len(text)
    THEN IF currentChunk > 0 THEN Append(chunks, currentChunk) ELSE chunks
    ELSE IF text[i] = 0
    THEN SplitFrom(text, i + 1, chunks, currentChunk, maxSize)
    ELSE LET sentenceWithPunctuation == text[i] + 1
         IN  IF currentChunk + sentenceWithPunctuation <= maxSize
             THEN SplitFrom(text, i + 1, chunks,
                            currentChunk + (IF currentChunk > 0 THEN 1 ELSE 0)
                                + sentenceWithPunctuation,
                            maxSize)
             ELSE SplitFrom(text, i + 1,
                            IF currentChunk > 0
                            THEN Append(chunks, currentChunk) ELSE chunks,
                            sentenceWithPunctuation, maxSize)

\* ChirpService.splitTextIntoChunks: the lengths of the chunks
splitTextIntoChunks(text, maxSize) == SplitFrom(text, 1, <<>>, 0, maxSize)

\* generate_long_speech arguments tried
LongSpeechRequests ==
    {[text |-> t, options |-> [voice |-> "", language |-> "ja",
                               emotion |-> "happy"]] :
        t \in {<<>>, <<0>>, <<10>>, <<10, 10>>, <<1999, 1999>>,
               <<3990, 3990>>, <<10, 5000>>}}

\* a prompt token for a chunk of the given length: validateRequest tells
\* the empty text, a text of at most 5000 characters and a longer one apart
ChunkPrompt(length) ==
    IF length = 0 THEN "" ELSE IF length > 5000 THEN "P5001" ELSE "sunset"

\* generateLongFormSpeech: chunkRequest
ChunkRequest(chunk, options) ==
    [prompt |-> ChunkPrompt(chunk), voice |-> options.voice,
     language |-> options.language, emotion |-> options.emotion]

(***************************************************************************)
(* Upstream replies.                                                       *)
(***************************************************************************)
\* a prediction carries inline bytes, a URI to download, or neither
PredictionKinds == {"bytes", "uri", "neither"}

RECURSIVE SeqsUpTo(_, _)
SeqsUpTo(S, n) ==
    IF n = 0 THEN {<<>>}
    ELSE LET shorter == SeqsUpTo(S, n - 1)
         IN  shorter \cup {Append(q, x) : q \in shorter, x \in S}

PredictionLists == SeqsUpTo(PredictionKinds, MaxPredictions)

\* predictions[0]: undefined on an empty list
First(list) ==
    IF Len(list) > 0 THEN list[1] ELSE "undefined"

\* operation status: payload is "none" (no response field), "bare" (a
\* response without predictions) or "predictions"
StatusReply(done, error, payload, list) ==
    [failure |-> NoError, done |-> done, error |-> error,
     payload |-> payload, predictions |-> list]

NoReply == StatusReply(FALSE, NoText, "none", <<>>)

\* status replies tried: still running (with or without a partial payload),
\* done with an error (with or without a payload), done with no error and
\* no payload, a bare payload, or a list of predictions; the pollers read
\* predictions[0] only, so lists of at most one prediction are tried
StatusReplies ==
    {StatusReply(FALSE, NoText, "none", <<>>),
     StatusReply(FALSE, NoText, "predictions", <<"bytes">>),
     StatusReply(TRUE, <<"Quota exceeded">>, "none", <<>>),
     StatusReply(TRUE, <<"Quota exceeded">>, "predictions", <<"bytes">>),
     StatusReply(TRUE, NoText, "none", <<>>),
     StatusReply(TRUE, NoText, "bare", <<>>)}
    \cup {StatusReply(TRUE, NoText, "predictions", l) :
            l \in SeqsUpTo(PredictionKinds, 1)}

\* a status request that threw
FailedReply(error) == [NoReply EXCEPT !.failure = error]

(***************************************************************************)
(* Responses.                                                              *)
(***************************************************************************)
\* a *Response object: artifacts is its images / videos / audio / music /
\* outputFiles list, error its error text (batch failure entries only)
Response(success, artifacts, req, error) ==
    [success |-> success, artifacts |-> artifacts, request |-> req,
     error |-> error]

\* the {} the pollers pass as request
EmptyRequest == [prompt |-> "undefined"]

NoResponse == Response(FALSE, <<>>, EmptyRequest, NoText)

Pending == [status |-> "pending", error |-> NoError, result |-> NoResponse]
Returned(result) == [status |-> "returned", error |-> NoError, result |-> result]
Thrown(error) == [status |-> "thrown", error |-> error, result |-> NoResponse]

\* an entry of a videos / music list: size from fs.stat, metadata.prompt
Artifact(size, req) == [size |-> size, prompt |-> req.prompt]

TypeErrorUndefined == Error(<<"Cannot read properties of undefined">>)

WriteError == Error(<<"ENOSPC: no space left on device, write">>)

\* BaseGoogleAIService.getFileInfo when fs.stat fails
FileInfoError ==
    Error(<<"Failed to get file info for ", "output/file", ": ",
            "Error: ENOENT: no such file or directory, stat">>)

\* processVideoResult / processMusicResult: every way the call can end, as
\* [error, result]; the file write, the download and fs.stat may each fail
ProcessResultOutcomes(pred, req) ==
    IF pred = "undefined"
    THEN {[error |-> TypeErrorUndefined, result |-> NoResponse]}
    ELSE IF pred = "bytes"
    THEN {[error |-> WriteError, result |-> NoResponse],
          [error |-> FileInfoError, result |-> NoResponse]}
         \cup {[error |-> NoError,
                result |-> Response(TRUE, <<Artifact(n, req)>>, req, NoText)]
               : n \in Sizes}
    ELSE IF pred = "uri"
    THEN {[error |-> e, result |-> NoResponse] : e \in HttpErrors}
         \cup {[error |-> FileInfoError, result |-> NoResponse]}
         \cup {[error |-> NoError,
                result |-> Response(TRUE, <<Artifact(n, req)>>, req, NoText)]
               : n \in Sizes}
    ELSE {[error |-> NoError, result |-> Response(TRUE, <<>>, req, NoText)]}

(***************************************************************************)
(* Requests of the media tools.  A file name stands for a path; the files  *)
(* in ExistingFiles pass fs.access.                                        *)
(***************************************************************************)
ExistingFiles == {"a.mp4", "b.mp4", "subs.srt"}

\* operation "" and hasInputFiles FALSE are the missing fields
AVRequest(operation, hasInputFiles, inputFiles) ==
    [operation |-> operation, hasInputFiles |-> hasInputFiles,
     inputFiles |-> inputFiles]

ValidOperations ==
    {"merge", "extract_audio", "add_subtitles", "trim", "resize", "convert"}

\* operations that run ffmpeg once per input file
LoopOperations == {"extract_audio", "trim", "resize", "convert"}

RECURSIVE FirstMissing(_)
\* the first input file fs.access rejects, "" when there is none
FirstMissing(files) ==
    IF files = <<>> THEN ""
    ELSE IF Head(files) \notin ExistingFiles THEN Head(files)
    ELSE FirstMissing(Tail(files))

\* a validation that does not look for the input files
AVValidateRequestNoAccess(req) ==
    IF req.operation = "" THEN <<"Operation is required">>
    ELSE IF ~req.hasInputFiles \/ Len(req.inputFiles) = 0
    THEN <<"At least one input file is required">>
    ELSE IF req.operation \notin ValidOperations
    THEN <<"Operation must be one of: ",
           "merge, extract_audio, add_subtitles, trim, resize, convert">>
    ELSE Valid

\* AVToolService.validateRequest: the message of the error it throws, or Valid
AVValidateRequest(req) ==
    IF req.operation = "" THEN <<"Operation is required">>
    ELSE IF ~req.hasInputFiles \/ Len(req.inputFiles) = 0
    THEN <<"At least one input file is required">>
    ELSE IF req.operation \notin ValidOperations
    THEN <<"Operation must be one of: ",
           "merge, extract_audio, add_subtitles, trim, resize, convert">>
    ELSE IF FirstMissing(req.inputFiles) # ""
    THEN <<"Input file not found: ", FirstMissing(req.inputFiles)>>
    ELSE Valid

\* operations tried in a batch: two valid ones and one for each way
\* validation fails
BatchItems ==
    {AVRequest("merge", TRUE, <<"a.mp4", "b.mp4">>),
     AVRequest("convert", TRUE, <<"a.mp4">>),
     AVRequest("rotate", TRUE, <<"a.mp4">>),
     AVRequest("", TRUE, <<"a.mp4">>),
     AVRequest("merge", FALSE, <<>>),
     AVRequest("convert", TRUE, <<>>),
     AVRequest("convert", TRUE, <<"gone.mp4">>)}

\* process_media arguments tried
AVRequests ==
    BatchItems
    \cup {AVRequest("extract_audio", TRUE, <<"a.mp4", "b.mp4">>),
          AVRequest("trim", TRUE, <<"a.mp4">>),
          AVRequest("resize", TRUE, <<"a.mp4", "gone.mp4">>),
          AVRequest("add_subtitles", TRUE, <<"a.mp4", "subs.srt">>),
          AVRequest("add_subtitles", TRUE, <<"a.mp4">>)}

\* an entry of outputFiles: size from fs.stat, metadata.sourceFile
OutputFile(size, source) == [size |-> size, sourceFile |-> source]

ExecError == Error(<<"Command failed: ffmpeg">>)

UnlinkError == Error(<<"ENOENT: no such file or directory, unlink">>)

SubtitleCountError ==
    Error(<<"Subtitle operation requires exactly 2 files: video and subtitle file">>)

\* mergeFiles: new Error(`Merge failed: ${error}`)
MergeFailed(error) == Error(<<"Merge failed: ", "Error: ">> \o error.message)

(***************************************************************************)
(* Tools and the service operations behind them.                           *)
(***************************************************************************)
VideoTools == {"generate_video", "style_transfer_video"}
MusicTools == {"generate_music", "style_inspired_music", "continue_music"}

ImageTools == {"generate_image", "edit_image", "upscale_image"}

\* tools whose service method validates its request first
ValidatingTools ==
    {"generate_video", "generate_music", "generate_image", "generate_speech"}
\* tools whose service method reads an input file first
FileReadingTools ==
    {"style_transfer_video", "style_inspired_music", "continue_music",
     "edit_image", "upscale_image"}

PollingTools == VideoTools \cup MusicTools

\* the operation name each service method passes to handleError
OperationName(t) ==
    CASE t = "generate_video" -> "Veo video generation"
      [] t = "style_transfer_video" -> "Veo video style transfer"
      [] t = "generate_music" -> "Lyria music generation"
      [] t = "style_inspired_music" -> "Lyria style-inspired generation"
      [] t = "continue_music" -> "Lyria music continuation"
      [] t = "process_media" -> "AVTool processing"
      [] t = "generate_image" -> "Imagen image generation"
      [] t = "edit_image" -> "Imagen image editing"
      [] t = "upscale_image" -> "Imagen image upscaling"
      [] t = "generate_speech" -> "Chirp speech generation"
      [] t = "generate_multipart_music" -> "Lyria multi-part music generation"
      [] t = "generate_long_speech" -> "Chirp long-form speech generation"
      [] OTHER -> "unknown"

Service(t) == IF t \in VideoTools THEN "video" ELSE "music"

\* pollVideoGeneration / pollMusicGeneration: maxWaitTime
maxWaitTime(service) ==
    IF service = "video" THEN 10 * 60 * 1000 ELSE 8 * 60 * 1000

\* a poll interval of no length
pollIntervalZero(service) == 0

\* a poll interval that grows with the number of status requests made
pollIntervalBackoff(service) ==
    (IF service = "video" THEN 30 * 1000 ELSE 20 * 1000) * polls

\* pollVideoGeneration / pollMusicGeneration: pollInterval
pollInterval(service) ==
    IF service = "video" THEN 30 * 1000 ELSE 20 * 1000

\* the loop condition with <= for <
WithinWaitInclusive(e, service) == e <= maxWaitTime(service)

\* the loop condition Date.now() - startTime < maxWaitTime
WithinWait(e, service) == e < maxWaitTime(service)

TimeoutError(service) ==
    Error(<<IF service = "video" THEN "Video generation timeout"
                                 ELSE "Music generation timeout">>)

GenerationFailed(service, message) ==
    Error(<<IF service = "video" THEN "Video generation failed: "
                                 ELSE "Music generation failed: ">>
          \o message)

NoResultReceived(service) ==
    Error(<<IF service = "video" THEN "No video generation result received"
                                 ELSE "No music generation result received">>)

\* the service method whose body an invocation of the tool is running
Method(t) ==
    CASE t = "batch_process_media" -> "process_media"
      [] t = "generate_multipart_music" -> "generate_music"
      [] t = "generate_long_speech" -> "generate_speech"
      [] OTHER -> t

\* tools whose service method calls another service method per item
CompositeTools ==
    {"batch_process_media", "generate_multipart_music", "generate_long_speech"}

\* tools whose method hands the error of the method it calls to handleError
WrappingTools == {"generate_multipart_music", "generate_long_speech"}

\* arguments tried for each tool
Requests(t) ==
    CASE t = "generate_video" -> VeoRequests
      [] t = "generate_music" -> LyriaRequests
      [] t = "process_media" -> AVRequests
      [] t = "generate_image" -> ImagenRequests
      [] t = "edit_image" ->
            {[prompt |-> "sunset", hasMask |-> m] : m \in BOOLEAN}
      [] t = "generate_speech" -> ChirpRequests
      [] t = "generate_multipart_music" -> MultiPartRequests
      [] t = "generate_long_speech" -> LongSpeechRequests
      [] t = "batch_process_media" ->
            {[operations |-> l] : l \in SeqsUpTo(BatchItems, MaxBatch)}
      [] OTHER -> {[prompt |-> "sunset"]}

Tools ==
    PollingTools \cup ImageTools
    \cup {"generate_speech", "generate_long_speech",
          "generate_multipart_music", "process_media",
          "batch_process_media", "get_system_info"}

\* the request the running service method was called with
CurrentRequest ==
    IF tool = "batch_process_media" THEN request.operations[index + 1]
    ELSE IF tool = "generate_multipart_music"
    THEN PartRequest(request.parts[index + 1], request.options)
    ELSE IF tool = "generate_long_speech"
    THEN ChunkRequest(splitTextIntoChunks(request.text, maxChunkSize)[index + 1],
                      request.options)
    ELSE request

\* what a predict call answers: an operation name to poll, a predictions
\* list (hasPredictions FALSE: the field is missing), or neither
PredictReply(name, hasPredictions, list) ==
    [name |-> name, hasPredictions |-> hasPredictions, predictions |-> list]

PredictReplies ==
    {PredictReply(TRUE, FALSE, <<>>), PredictReply(FALSE, FALSE, <<>>)}
    \cup {PredictReply(FALSE, TRUE, l) : l \in PredictionLists}

ReadError == Error(<<"ENOENT: no such file or directory, open">>)

AuthError == Error(<<"Could not load the default credentials">>)

(***************************************************************************)
(* How a step of a service method ends: it suspends at the next await      *)
(* (Goto, GotoCaught), returns, or throws.  These fix pc, outcome, index,  *)
(* collected, trace and raised; the action fixes the other variables.      *)
(***************************************************************************)
Goto(p) ==
    /\ pc' = p
    /\ UNCHANGED <<outcome, index, collected, trace, raised>>

\* a catch block that was given error and goes on to the await at p
GotoCaught(p, error) ==
    /\ pc' = p
    /\ raised' = error
    /\ UNCHANGED <<outcome, index, collected, trace>>

\* an entry of trace: "start" and "end" of operation n of a batch (ok: it
\* ended without an error), "timer" a setTimeout of n ms
Event(ev, n, ok) == [ev |-> ev, n |-> n, ok |-> ok]

\* a wait after every operation, the last one too
NeedsDelayAfterEach(i, length) == i < length

\* AVToolService.batchProcess: the if around the wait between operations
NeedsDelay(i, length) == i < length - 1

\* a catch block that pushes its entry with success: true
FailureEntryAsSuccess(operation, error) ==
    [success |-> TRUE, artifacts |-> <<>>, request |-> operation,
     error |-> error.message]

\* AVToolService.batchProcess: the entry its catch block pushes
FailureEntry(operation, error) ==
    Response(FALSE, <<>>, operation, error.message)

\* AVToolService.batchProcess, the for loop at i with results gathered:
\* operation i starts, or the loop is over and results is returned; log is
\* the trace so far
BatchLoop(i, results, log) ==
    /\ index' = i
    /\ collected' = results
    /\ IF i < Len(request.operations)
       THEN /\ pc' = "start"
            /\ trace' = Append(log, Event("start", i, TRUE))
            /\ UNCHANGED outcome
       ELSE /\ pc' = "returned"
            /\ trace' = log
            /\ outcome' = Returned(results)

\* AVToolService.batchProcess after operation index has ended with ok and
\* results has become results: wait before the next one, or go on at once
BatchItemEnds(results, ok) ==
    IF NeedsDelay(index, Len(request.operations))
    THEN /\ pc' = "batch_delay"
         /\ collected' = results
         /\ trace' = trace \o <<Event("end", index, ok),
                                Event("timer", 1000, TRUE)>>
         /\ UNCHANGED <<index, outcome>>
    ELSE BatchLoop(index + 1, results, Append(trace, Event("end", index, ok)))

\* LyriaService.generateMultiPartMusic: the if around the wait between parts
NeedsPartDelay(i, length) == i < length - 1

\* LyriaService.generateMultiPartMusic: the response it returns
MultiPartResponse(music) ==
    Response(TRUE, music,
             [prompt |-> "Multi-part composition", parts |-> Len(request.parts)],
             NoText)

\* LyriaService.generateMultiPartMusic, the for loop at i with the music
\* gathered: part i starts, or the loop is over and the response is returned
MultiPartLoop(i, music) ==
    /\ index' = i
    /\ collected' = music
    /\ UNCHANGED trace
    /\ IF i < Len(request.parts)
       THEN pc' = "start" /\ UNCHANGED outcome
       ELSE pc' = "returned" /\ outcome' = Returned(MultiPartResponse(music))

\* ChirpService.generateLongFormSpeech: the if around the wait between chunks
NeedsChunkDelay(i, length) == i < length - 1

\* ChirpService.generateLongFormSpeech: the response it returns
LongSpeechResponse(audio) ==
    Response(TRUE, audio,
             [prompt |-> "text",
              chunks |-> Len(splitTextIntoChunks(request.text, maxChunkSize))],
             NoText)

\* ChirpService.generateLongFormSpeech, the for loop at i with the audio
\* gathered: chunk i starts, or the loop is over and the response is returned
ChunkLoop(i, audio) ==
    /\ index' = i
    /\ collected' = audio
    /\ UNCHANGED trace
    /\ IF i < Len(splitTextIntoChunks(request.text, maxChunkSize))
       THEN pc' = "start" /\ UNCHANGED outcome
       ELSE pc' = "returned" /\ outcome' = Returned(LongSpeechResponse(audio))

\* the method returns result to its caller
ServiceReturns(result) ==
    /\ UNCHANGED raised
    /\ IF tool = "batch_process_media"
       THEN BatchItemEnds(Append(collected, result), TRUE)
       ELSE IF tool = "generate_multipart_music"
       THEN IF NeedsPartDelay(index, Len(request.parts))
            THEN /\ pc' = "part_delay"
                 /\ collected' = collected \o result.artifacts
                 /\ UNCHANGED <<index, trace, outcome>>
            ELSE MultiPartLoop(index + 1, collected \o result.artifacts)
       ELSE IF tool = "generate_long_speech"
       THEN IF NeedsChunkDelay(
                   index, Len(splitTextIntoChunks(request.text, maxChunkSize)))
            THEN /\ pc' = "chunk_delay"
                 /\ collected' = collected \o result.artifacts
                 /\ UNCHANGED <<index, trace, outcome>>
            ELSE ChunkLoop(index + 1, collected \o result.artifacts)
       ELSE /\ pc' = "returned"
            /\ outcome' = Returned(result)
            /\ UNCHANGED <<index, collected, trace>>

\* the method answers a failure with what it has gathered so far
ServiceThrowsPartial(error) ==
    IF tool = "batch_process_media"
    THEN IF CurrentRequest.hasInputFiles
         THEN BatchItemEnds(
                  Append(collected, FailureEntry(CurrentRequest, error)),
                  FALSE)
         ELSE /\ pc' = "thrown"
              /\ outcome' = Thrown(TypeErrorUndefined)
              /\ trace' = Append(trace, Event("end", index, FALSE))
              /\ UNCHANGED <<index, collected>>
    ELSE /\ pc' = "returned"
         /\ outcome' = Returned(Response(TRUE, collected \o produced,
                                         CurrentRequest, NoText))
         /\ UNCHANGED <<index, collected, trace>>

\* the method throws error to its caller; the catch block of batchProcess
\* reads operation.inputFiles.length for the entry it pushes, the catch
\* blocks of generateMultiPartMusic and generateLongFormSpeech hand the
\* error to handleError
ServiceThrows(error) ==
    IF tool = "batch_process_media"
    THEN IF CurrentRequest.hasInputFiles
         THEN BatchItemEnds(
                  Append(collected, FailureEntry(CurrentRequest, error)),
                  FALSE)
         ELSE /\ pc' = "thrown"
              /\ outcome' = Thrown(TypeErrorUndefined)
              /\ trace' = Append(trace, Event("end", index, FALSE))
              /\ UNCHANGED <<index, collected>>
    ELSE /\ pc' = "thrown"
         /\ outcome' =
               Thrown(IF tool \in WrappingTools
                      THEN handleError(error, OperationName(tool))
                      ELSE error)
         /\ UNCHANGED <<index, collected, trace>>

\* the catch block of the running method: this.handleError(error,
\* '<operation>'); raised keeps the error as it was raised
Fails(error) ==
    /\ raised' = error
    /\ ServiceThrows(handleError(error, OperationName(Method(tool))))

(***************************************************************************)
(* ChirpService.processRequest: the body of the synthesis request.         *)
(***************************************************************************)
\* ChirpService.mapLanguageCode
mapLanguageCode(language) ==
    CASE language = "en" -> "en-US" [] language = "ja" -> "ja-JP"
      [] language = "es" -> "es-ES" [] language = "fr" -> "fr-FR"
      [] language = "de" -> "de-DE" [] language = "it" -> "it-IT"
      [] language = "pt" -> "pt-BR" [] language = "ru" -> "ru-RU"
      [] language = "ko" -> "ko-KR" [] language = "zh" -> "zh-CN"
      [] OTHER -> "en-US"

\* ChirpService.selectVoice: voiceMap has the languages en and ja
selectVoice(language, voice) ==
    LET lang == IF language = "ja" THEN "ja" ELSE "en"
        v == IF voice \in {"male", "female", "child", "elderly"}
             THEN voice ELSE "female"
    IN  CASE lang = "en" /\ v = "male" -> "en-US-Journey-D"
          [] lang = "en" /\ v = "female" -> "en-US-Journey-F"
          [] lang = "en" /\ v = "child" -> "en-US-Wavenet-A"
          [] lang = "en" /\ v = "elderly" -> "en-US-News-N"
          [] lang = "ja" /\ v = "male" -> "ja-JP-Neural2-C"
          [] lang = "ja" /\ v = "female" -> "ja-JP-Neural2-B"
          [] lang = "ja" /\ v = "child" -> "ja-JP-Wavenet-A"
          [] OTHER -> "ja-JP-Wavenet-D"

\* ChirpService.mapGender
mapGender(voice) == IF voice \in {"male", "elderly"} THEN "MALE" ELSE "FEMALE"

\* ChirpService.addEmotionToSSML: ssmlEmotion is looked up in emotionMap and
\* the template that is returned holds the text only
addEmotionToSSML(text, emotion) ==
    LET ssmlEmotion ==
            CASE emotion = "happy" -> "excited"
              [] emotion = "sad" -> "disappointed"
              [] emotion = "excited" -> "excited"
              [] emotion = "calm" -> "calm"
              [] emotion = "angry" -> "angry"
              [] OTHER -> "neutral"
    IN  <<"<speak><prosody volume=medium rate=medium><emphasis level=moderate>",
          text, "</emphasis></prosody></speak>">>

\* x || fallback for a text x
Or(x, fallback) == IF x # "" THEN x ELSE fallback

\* ChirpService.processRequest: requestBody as it is posted; input holds
\* the one field named by field (text or ssml)
SynthesisBody(req) ==
    [input |-> IF req.emotion # "" /\ req.emotion # "neutral"
               THEN [field |-> "ssml",
                     value |-> addEmotionToSSML(req.prompt, req.emotion)]
               ELSE [field |-> "text", value |-> <<req.prompt>>],
     voice |-> [languageCode |-> mapLanguageCode(Or(req.language, "en")),
                name |-> selectVoice(Or(req.language, "en"),
                                     Or(req.voice, "female")),
                ssmlGender |-> mapGender(Or(req.voice, "female"))],
     audioConfig |-> [audioEncoding |-> "MP3", speakingRate |-> "1.0",
                      pitch |-> "0.0"]]

\* no synthesis request is out
NoBody ==
    [input |-> [field |-> "none", value |-> <<>>],
     voice |-> [languageCode |-> "", name |-> "", ssmlGender |-> ""],
     audioConfig |-> [audioEncoding |-> "", speakingRate |-> "",
                      pitch |-> ""]]

(***************************************************************************)
(* What every resumption of the invocation keeps up to date: the answer of *)
(* the tools/call handler, the external calls in flight and the timer set. *)
(***************************************************************************)
\* new McpError(code, message) as the client sees it
McpError(code, message) == [code |-> code, message |-> message]

NoAnswer == [code |-> "none", message |-> NoText]

\* the { content: [...] } a tool handler returns
ToolResult == [code |-> "result", message |-> NoText]

\* the message of an McpError object: the SDK puts the code before the text
McpMessage(code, message) == <<"MCP error ", code, ": ">> \o message

\* CallTool handler: what it gives the client once the service method has
\* ended with o; its catch block rethrows as InternalError
HandlerAnswer(o) ==
    IF o.status = "thrown"
    THEN McpError("InternalError",
                  <<"Tool execution failed: ">> \o o.error.message)
    ELSE IF o.status = "returned" THEN ToolResult
    ELSE NoAnswer

\* external calls (HTTP request, status request, download, ffmpeg command)
\* in flight while the invocation is suspended at p with prediction pred
Awaited(p, pred) ==
    IF \/ p \in {"post", "poll_get", "ffmpeg", "merge_ffmpeg"}
       \/ p \in {"process", "poll_process"} /\ pred = "uri"
       \/ tool = "get_system_info"
             /\ p \in {"start", "info_formats", "info_codecs"}
    THEN 1 ELSE 0

\* a resumption that leaves its call in flight
CompletedNever(p, pred) == 0

\* an await resumes only when the call it waits for has completed
Completed(p, pred) == Awaited(p, pred)

\* the delay of the setTimeout the invocation awaits at p
TimerSet(p) ==
    CASE p \in {"poll_sleep_try", "poll_sleep_catch"} ->
              pollInterval(Service(Method(tool)))
      [] p \in {"batch_delay", "chunk_delay"} -> 1000
      [] p = "part_delay" -> 2000
      [] OTHER -> 0

\* the process, its environment and the other request are left alone
Resumes ==
    /\ answer' = HandlerAnswer(outcome')
    /\ inflight' = (inflight - Completed(pc, prediction))
                      + Awaited(pc', prediction')
    /\ timer' = TimerSet(pc')
    /\ body' = IF pc' = "post" /\ Method(tool) = "generate_speech"
               THEN SynthesisBody(CurrentRequest) ELSE NoBody
    /\ UNCHANGED <<env, exit, peer>>

(***************************************************************************)
(* The process: main, the signal handlers, the tools/list and tools/call   *)
(* handlers.  "" is the value of an environment variable that is not set   *)
(* (or set to the empty text).                                             *)
(***************************************************************************)
Env(apiKey, projectId, gcloudProject) ==
    [GOOGLE_AI_API_KEY |-> apiKey, GOOGLE_CLOUD_PROJECT_ID |-> projectId,
     GCLOUD_PROJECT |-> gcloudProject]

Envs ==
    {Env(k, p, g) : k \in {"", "key"}, p \in {"", "my-project"},
                    g \in {"", "other-project"}}

\* main: const config
Config(e) ==
    [apiKey |-> e.GOOGLE_AI_API_KEY,
     projectId |-> IF e.GOOGLE_CLOUD_PROJECT_ID # ""
                   THEN e.GOOGLE_CLOUD_PROJECT_ID ELSE e.GCLOUD_PROJECT]

\* a check that wants both the API key and the project ID
MissingCredentialsEither(config) == config.apiKey = "" \/ config.projectId = ""

\* main: if (!config.apiKey && !config.projectId)
MissingCredentials(config) == config.apiKey = "" /\ config.projectId = ""

\* the environment of the server whose tool calls are followed
ServingEnv == Env("key", "", "")

\* the process runs: exit.code is the exit code, by the handler that called
\* process.exit and at the position of the process at that moment
NoExit == [code |-> -1, by |-> "none", at |-> "none"]

NoPeer == [pc |-> "none", concatList |-> "unread"]

\* the names in the tools array of the tools/list handler
ListedTools ==
    {"generate_image", "edit_image", "upscale_image", "generate_video",
     "style_transfer_video", "generate_speech", "generate_long_speech",
     "generate_music", "style_inspired_music", "continue_music",
     "generate_multipart_music", "process_media", "batch_process_media",
     "get_system_info"}

\* a switch without the case of generate_long_speech
DispatchedToolsFewer ==
    {"generate_image", "edit_image", "upscale_image", "generate_video",
     "style_transfer_video", "generate_speech",
     "generate_music", "style_inspired_music", "continue_music",
     "generate_multipart_music", "process_media", "batch_process_media",
     "get_system_info"}

\* the case labels of the switch in the tools/call handler
DispatchedTools ==
    {"generate_image", "edit_image", "upscale_image", "generate_video",
     "style_transfer_video", "generate_speech", "generate_long_speech",
     "generate_music", "style_inspired_music", "continue_music",
     "generate_multipart_music", "process_media", "batch_process_media",
     "get_system_info"}

\* the tools of the README's list of available MCP tools
DocumentedTools ==
    {"generate_image", "edit_image", "upscale_image", "generate_video",
     "style_transfer_video", "generate_speech", "generate_long_speech",
     "generate_music", "style_inspired_music", "continue_music",
     "generate_multipart_music", "process_media", "batch_process_media",
     "get_system_info"}

\* names a tools/call request is tried with
ToolNames == ListedTools \cup Tools \cup {"render_hologram"}

\* process.exit(code): the process is gone with all it held in memory; the
\* list file stays on disk, the client has what it was answered so far, and
\* the external calls in flight are neither awaited nor cancelled
Exit(code, by) ==
    /\ pc' = "exited"
    /\ exit' = [code |-> code, by |-> by, at |-> pc]
    /\ elapsed' = 0
    /\ polls' = 0
    /\ reply' = NoReply
    /\ prediction' = "undefined"
    /\ predictions' = <<>>
    /\ item' = 0
    /\ produced' = <<>>
    /\ index' = 0
    /\ collected' = <<>>
    /\ trace' = <<>>
    /\ raised' = NoError
    /\ timer' = 0
    /\ peer' = NoPeer
    /\ body' = NoBody
    /\ UNCHANGED <<tool, request, outcome, answer, inflight, env, listFile,
                   concatList>>

(***************************************************************************)
(* processRequest / styleTransfer / styleInspiredGeneration /              *)
(* continueMusic of the video and music services.                          *)
(***************************************************************************)
\* a tools/call request has reached the handler of a started server
Init ==
    /\ tool \in ToolNames
    /\ request \in Requests(tool)
    /\ pc = "call"
    /\ elapsed = 0
    /\ polls = 0
    /\ reply = NoReply
    /\ prediction = "undefined"
    /\ predictions = <<>>
    /\ item = 0
    /\ produced = <<>>
    /\ index = 0
    /\ collected = <<>>
    /\ trace = <<>>
    /\ raised = NoError
    /\ outcome = Pending
    /\ answer = NoAnswer
    /\ inflight = 0
    /\ timer = 0
    /\ env = ServingEnv
    /\ exit = NoExit
    /\ listFile = "none"
    /\ concatList = "unread"
    /\ peer \in IF tool = "process_media" /\ request.operation = "merge"
               THEN {NoPeer, [NoPeer EXCEPT !.pc = "write"]}
               ELSE {NoPeer}
    /\ body = NoBody

\* validateRequest of the service the method belongs to
\* the CallToolRequestSchema handler up to its first await: the switch on
\* request.params.name; the default branch throws inside the try, so the
\* catch block of the handler gets its McpError as any other error
CallTool ==
    /\ pc = "call"
    /\ IF tool \in DispatchedTools
       THEN /\ pc' = IF tool \in CompositeTools THEN "outer_start" ELSE "start"
            /\ UNCHANGED outcome
       ELSE /\ pc' = "rejected"
            /\ outcome' = Thrown(Error(McpMessage("MethodNotFound",
                                                  <<"Unknown tool: ", tool>>)))
    /\ UNCHANGED <<tool, request, elapsed, polls, reply, prediction,
                   predictions, item, produced, index, collected, trace,
                   raised>>
    /\ UNCHANGED <<listFile, concatList>>
    /\ Resumes

ValidateRequest(method, req) ==
    CASE method = "generate_video" -> VeoValidateRequest(req)
      [] method = "generate_music" -> LyriaValidateRequest(req)
      [] method = "generate_image" -> ImagenValidateRequest(req)
      [] method = "generate_speech" -> ChirpValidateRequest(req)
      [] OTHER -> Valid

\* a processRequest that goes for the auth token without validating
ValidateSkipped ==
    /\ pc = "start"
    /\ Method(tool) \in ValidatingTools
    /\ Goto("auth")
    /\ UNCHANGED <<tool, request, elapsed, polls, reply, prediction,
                   predictions, item, produced>>
    /\ UNCHANGED <<listFile, concatList>>
    /\ Resumes

\* await this.validateRequest(request)
Validate ==
    /\ pc = "start"
    /\ Method(tool) \in ValidatingTools
    /\ LET v == ValidateRequest(Method(tool), CurrentRequest)
       IN  IF v # Valid THEN Fails(Error(v)) ELSE Goto("auth")
    /\ UNCHANGED <<tool, request, elapsed, polls, reply, prediction,
                   predictions, item, produced>>
    /\ UNCHANGED <<listFile, concatList>>
    /\ Resumes

\* await fs.readFile(videoPath / referenceAudioPath / seedAudioPath)
\* / imagePath; editImage reads maskPath next when it is given
ReadInput ==
    /\ pc = "start"
    /\ Method(tool) \in FileReadingTools
    /\ \/ IF tool = "edit_image" /\ request.hasMask
          THEN Goto("read_mask") ELSE Goto("auth")
       \/ Fails(ReadError)
    /\ UNCHANGED <<tool, request, elapsed, polls, reply, prediction,
                   predictions, item, produced>>
    /\ UNCHANGED <<listFile, concatList>>
    /\ Resumes

\* await this.getAuthToken()
Auth ==
    /\ pc = "auth"
    /\ \/ Goto("post")
       \/ Fails(AuthError)
    /\ UNCHANGED <<tool, request, elapsed, polls, reply, prediction,
                   predictions, item, produced>>
    /\ UNCHANGED <<listFile, concatList>>
    /\ Resumes

\* const startTime = Date.now() of pollVideoGeneration / pollMusicGeneration
StartPoll ==
    /\ Goto("poll_loop")
    /\ elapsed' = 0
    /\ polls' = 0
    /\ reply' = NoReply
    /\ UNCHANGED prediction

\* await axios.post(...:predict) and the dispatch on response.data
Predict ==
    /\ pc = "post"
    /\ Method(tool) \in PollingTools
    /\ \/ \E e \in HttpErrors :
            /\ Fails(e)
            /\ UNCHANGED <<elapsed, polls, reply, prediction>>
       \/ \E r \in PredictReplies :
            IF r.name
            THEN StartPoll
            ELSE IF Method(tool) \in ValidatingTools
                    /\ ~(r.hasPredictions /\ Len(r.predictions) > 0)
            THEN /\ Fails(NoResultReceived(Service(Method(tool))))
                 /\ UNCHANGED <<elapsed, polls, reply, prediction>>
            ELSE IF ~r.hasPredictions
            THEN /\ Fails(TypeErrorUndefined)
                 /\ UNCHANGED <<elapsed, polls, reply, prediction>>
            ELSE /\ Goto("process")
                 /\ prediction' = First(r.predictions)
                 /\ UNCHANGED <<elapsed, polls, reply>>
    /\ UNCHANGED <<tool, request, predictions, item, produced>>
    /\ UNCHANGED <<listFile, concatList>>
    /\ Resumes

\* await this.processVideoResult(predictions[0], request), direct path
ProcessDirect ==
    /\ pc = "process"
    /\ \E o \in ProcessResultOutcomes(prediction, CurrentRequest) :
          IF o.error = NoError THEN ServiceReturns(o.result)
                               ELSE Fails(o.error)
    /\ prediction' = "undefined"
    /\ UNCHANGED <<tool, request, elapsed, polls, reply, predictions, item,
                   produced>>
    /\ UNCHANGED <<listFile, concatList>>
    /\ Resumes

(***************************************************************************)
(* pollVideoGeneration / pollMusicGeneration.                              *)
(***************************************************************************)
\* a catch block that rethrows what it is given
PollCatchRethrows(e, error) == Fails(error)

\* the catch block of the loop, given error when the clock reads e: the
\* timeout error goes to the catch block of the calling method
PollCatch(e, error) ==
    IF e >= maxWaitTime(Service(Method(tool)))
    THEN Fails(TimeoutError(Service(Method(tool))))
    ELSE GotoCaught("poll_sleep_catch", error)

\* while (Date.now() - startTime < maxWaitTime): issue the status request,
\* or leave the loop and throw the timeout
PollLoop ==
    /\ pc = "poll_loop"
    /\ IF WithinWait(elapsed, Service(Method(tool)))
       THEN /\ Goto("poll_get")
            /\ polls' = polls + 1
       ELSE /\ Fails(TimeoutError(Service(Method(tool))))
            /\ UNCHANGED polls
    /\ UNCHANGED <<tool, request, elapsed, reply, prediction, predictions,
                   item, produced>>
    /\ UNCHANGED <<listFile, concatList>>
    /\ Resumes

\* await axios.get(status) answers, or throws, after d ms
PollStatus ==
    /\ pc = "poll_get"
    /\ \E d \in Latencies :
       \E r \in StatusReplies \cup {FailedReply(e) : e \in HttpErrors} :
          /\ elapsed' = elapsed + d
          /\ reply' = r
          /\ IF r.failure # NoError
             THEN PollCatch(elapsed', r.failure) /\ UNCHANGED prediction
             ELSE IF r.done /\ r.error # NoText
             THEN /\ PollCatch(elapsed',
                        GenerationFailed(Service(Method(tool)), r.error))
                  /\ UNCHANGED prediction
             ELSE IF r.done /\ r.payload = "predictions"
             THEN /\ Goto("poll_process")
                  /\ prediction' = First(r.predictions)
             ELSE /\ Goto("poll_sleep_try")
                  /\ UNCHANGED prediction
    /\ UNCHANGED <<tool, request, polls, predictions, item, produced>>
    /\ UNCHANGED <<listFile, concatList>>
    /\ Resumes

\* return await this.processVideoResult(predictions[0], {}) inside the try
PollProcess ==
    /\ pc = "poll_process"
    /\ \E o \in ProcessResultOutcomes(prediction, EmptyRequest) :
       \E d \in (IF prediction \in {"bytes", "uri"} THEN Latencies ELSE {0}) :
          /\ elapsed' = elapsed + d
          /\ IF o.error = NoError THEN ServiceReturns(o.result)
                                  ELSE PollCatch(elapsed', o.error)
    /\ prediction' = "undefined"
    /\ UNCHANGED <<tool, request, polls, reply, predictions, item, produced>>
    /\ UNCHANGED <<listFile, concatList>>
    /\ Resumes

\* await new Promise(resolve => setTimeout(resolve, pollInterval)), in the
\* try block or in the catch block (whose error goes out of scope); the
\* timer may fire d ms late
PollSleep ==
    /\ pc \in {"poll_sleep_try", "poll_sleep_catch"}
    /\ \E d \in Latencies :
          elapsed' = elapsed + timer + d
    /\ GotoCaught("poll_loop", NoError)
    /\ UNCHANGED <<tool, request, polls, reply, prediction, predictions, item,
                   produced>>
    /\ UNCHANGED <<listFile, concatList>>
    /\ Resumes

(***************************************************************************)
(* AVToolService: processRequest and the methods it dispatches to.         *)
(***************************************************************************)
\* await this.validateRequest(request), then the switch on the operation,
\* up to the first await of the method it calls
AVValidate ==
    /\ pc = "start"
    /\ Method(tool) = "process_media"
    /\ LET req == CurrentRequest
           v == AVValidateRequest(req)
       IN  IF v # Valid
           THEN Fails(Error(v))
           ELSE IF req.operation = "merge"
           THEN Goto("merge_write")
           ELSE IF req.operation = "add_subtitles" /\ Len(req.inputFiles) # 2
           THEN Fails(SubtitleCountError)
           ELSE Goto("ffmpeg")
    /\ item' = 0
    /\ produced' = <<>>
    /\ UNCHANGED <<tool, request, elapsed, polls, reply, prediction,
                   predictions>>
    /\ UNCHANGED <<listFile, concatList>>
    /\ Resumes

\* await execAsync(command) of extractAudio, trimMedia, resizeVideo,
\* convertFormat (for inputFiles[item]) and addSubtitles
Ffmpeg ==
    /\ pc = "ffmpeg"
    /\ \/ Goto("stat")
       \/ Fails(ExecError)
    /\ UNCHANGED <<tool, request, elapsed, polls, reply, prediction,
                   predictions, item, produced>>
    /\ UNCHANGED <<listFile, concatList>>
    /\ Resumes

\* await this.getFileInfo(outputPath) and the push; the loop goes to the
\* next input file or the method returns
Stat ==
    /\ pc = "stat"
    /\ LET req == CurrentRequest
       IN  \/ /\ Fails(FileInfoError)
              /\ UNCHANGED <<item, produced>>
           \/ \E n \in Sizes :
                /\ produced' =
                      Append(produced, OutputFile(n, req.inputFiles[item + 1]))
                /\ IF req.operation \in LoopOperations
                      /\ item + 1 < Len(req.inputFiles)
                   THEN item' = item + 1 /\ Goto("ffmpeg")
                   ELSE /\ UNCHANGED item
                        /\ ServiceReturns(
                              Response(TRUE, produced', req, NoText))
    /\ UNCHANGED <<tool, request, elapsed, polls, reply, prediction,
                   predictions>>
    /\ UNCHANGED <<listFile, concatList>>
    /\ Resumes

\* mergeFiles: await fs.writeFile(listFilePath, fileList), before the try
MergeWrite ==
    /\ pc = "merge_write"
    /\ \/ Goto("merge_ffmpeg") /\ listFile' = "main"
       \/ Fails(WriteError) /\ UNCHANGED listFile
    /\ concatList' = "unread"
    /\ UNCHANGED <<tool, request, elapsed, polls, reply, prediction,
                   predictions, item, produced>>
    /\ Resumes

\* the ffmpeg process started by execAsync(command) opens the file named by
\* -i "${listFilePath}": it reads what the file holds at that moment
ConcatRead ==
    /\ pc = "merge_ffmpeg"
    /\ concatList = "unread"
    /\ concatList' = IF listFile = "none" THEN "missing" ELSE listFile
    /\ Goto("merge_ffmpeg")
    /\ UNCHANGED <<tool, request, elapsed, polls, reply, prediction,
                   predictions, item, produced, listFile>>
    /\ Resumes

\* mergeFiles: await execAsync(command) inside the try
MergeFfmpeg ==
    /\ pc = "merge_ffmpeg"
    /\ \/ concatList \in {"main", "peer"} /\ Goto("merge_unlink")
       \/ GotoCaught("merge_cleanup", ExecError)
    /\ UNCHANGED <<tool, request, elapsed, polls, reply, prediction,
                   predictions, item, produced>>
    /\ UNCHANGED <<listFile, concatList>>
    /\ Resumes

\* a try block that leaves the list file where it is
MergeUnlinkKeeps ==
    /\ pc = "merge_unlink"
    /\ \/ Goto("merge_stat")
       \/ GotoCaught("merge_cleanup", UnlinkError)
    /\ UNCHANGED <<tool, request, elapsed, polls, reply, prediction,
                   predictions, item, produced, concatList, listFile>>
    /\ Resumes

\* mergeFiles: await fs.unlink(listFilePath) inside the try
MergeUnlink ==
    /\ pc = "merge_unlink"
    /\ \/ listFile # "none" /\ Goto("merge_stat") /\ listFile' = "none"
       \/ GotoCaught("merge_cleanup", UnlinkError) /\ UNCHANGED listFile
    /\ UNCHANGED <<tool, request, elapsed, polls, reply, prediction,
                   predictions, item, produced, concatList>>
    /\ Resumes

\* mergeFiles: await this.getFileInfo(outputPath) and the return
MergeStat ==
    /\ pc = "merge_stat"
    /\ LET req == CurrentRequest
       IN  \/ /\ GotoCaught("merge_cleanup", FileInfoError)
              /\ UNCHANGED produced
           \/ \E n \in Sizes :
                /\ produced' = <<OutputFile(n, req.inputFiles[1])>>
                /\ ServiceReturns(Response(TRUE, produced', req, NoText))
    /\ UNCHANGED <<tool, request, elapsed, polls, reply, prediction,
                   predictions, item>>
    /\ UNCHANGED <<listFile, concatList>>
    /\ Resumes

\* mergeFiles, catch block: await fs.unlink(listFilePath).catch(() => {}),
\* then throw new Error(`Merge failed: ${error}`)
MergeCleanup ==
    /\ pc = "merge_cleanup"
    /\ Fails(MergeFailed(raised))
    /\ listFile' \in {"none", listFile}
    /\ UNCHANGED <<tool, request, elapsed, polls, reply, prediction,
                   predictions, item, produced, concatList>>
    /\ Resumes

(***************************************************************************)
(* AVToolService.mergeFiles of a second tools/call request in flight on    *)
(* the same server: its awaits, as far as they touch output/merge_list.txt *)
(***************************************************************************)
\* the frame of a step of the second request
PeerStep ==
    UNCHANGED <<tool, request, pc, elapsed, polls, reply, prediction,
                predictions, item, produced, index, collected, trace, raised,
                outcome, answer, inflight, timer, env, exit, concatList,
                body>>

\* await fs.writeFile(listFilePath, fileList)
PeerWrite ==
    /\ peer.pc = "write"
    /\ \/ peer' = [peer EXCEPT !.pc = "ffmpeg"] /\ listFile' = "peer"
       \/ peer' = [peer EXCEPT !.pc = "done"] /\ UNCHANGED listFile
    /\ PeerStep

\* its ffmpeg process opens the list file
PeerRead ==
    /\ peer.pc = "ffmpeg"
    /\ peer.concatList = "unread"
    /\ peer' = [peer EXCEPT !.concatList =
                    IF listFile = "none" THEN "missing" ELSE listFile]
    /\ UNCHANGED listFile
    /\ PeerStep

\* await execAsync(command)
PeerFfmpeg ==
    /\ peer.pc = "ffmpeg"
    /\ \/ /\ peer.concatList \in {"main", "peer"}
          /\ peer' = [peer EXCEPT !.pc = "unlink"]
       \/ peer' = [peer EXCEPT !.pc = "cleanup"]
    /\ UNCHANGED listFile
    /\ PeerStep

\* await fs.unlink(listFilePath) inside the try
PeerUnlink ==
    /\ peer.pc = "unlink"
    /\ \/ /\ listFile # "none"
          /\ listFile' = "none"
          /\ peer' = [peer EXCEPT !.pc = "done"]
       \/ /\ peer' = [peer EXCEPT !.pc = "cleanup"]
          /\ UNCHANGED listFile
    /\ PeerStep

\* catch block: await fs.unlink(listFilePath).catch(() => {})
PeerCleanup ==
    /\ peer.pc = "cleanup"
    /\ listFile' \in {"none", listFile}
    /\ peer' = [peer EXCEPT !.pc = "done"]
    /\ PeerStep

(***************************************************************************)
(* AVToolService.batchProcess.                                             *)
(***************************************************************************)
\* const results = []; the for loop is entered with i = 0
BatchStart ==
    /\ pc = "outer_start"
    /\ tool = "batch_process_media"
    /\ BatchLoop(0, <<>>, <<>>)
    /\ UNCHANGED <<tool, request, elapsed, polls, reply, prediction,
                   predictions, item, produced, raised>>
    /\ UNCHANGED <<listFile, concatList>>
    /\ Resumes

\* await new Promise(resolve => setTimeout(resolve, 1000)) is over: i++ and
\* the loop goes on
BatchDelay ==
    /\ pc = "batch_delay"
    /\ BatchLoop(index + 1, collected, trace)
    /\ raised' = NoError
    /\ UNCHANGED <<tool, request, elapsed, polls, reply, prediction,
                   predictions, item, produced>>
    /\ UNCHANGED <<listFile, concatList>>
    /\ Resumes

(***************************************************************************)
(* ImagenService (processRequest, editImage, upscaleImage) and             *)
(* ChirpService.processRequest: the reply is walked and every prediction   *)
(* with inline bytes is written to a file.                                 *)
(***************************************************************************)
\* await fs.readFile(maskPath) of editImage
ReadMask ==
    /\ pc = "read_mask"
    /\ \/ Goto("auth")
       \/ Fails(ReadError)
    /\ UNCHANGED <<tool, request, elapsed, polls, reply, prediction,
                   predictions, item, produced>>
    /\ UNCHANGED <<listFile, concatList>>
    /\ Resumes

RECURSIVE NextBytes(_, _)
\* the first position from `from` on of a prediction with bytesBase64Encoded,
\* 0 when there is none
NextBytes(list, from) ==
    IF from > Len(list) THEN 0
    ELSE IF list[from] = "bytes" THEN from
    ELSE NextBytes(list, from + 1)

\* the request field of the response an image or speech method returns
ResultRequest ==
    IF tool = "upscale_image" THEN [prompt |-> "Upscale"] ELSE CurrentRequest

\* the for loop over predictions from position `from` with images gathered:
\* stop at the next prediction to write, or return the response
SaveLoop(from, images, list) ==
    /\ produced' = images
    /\ IF NextBytes(list, from) = 0
       THEN /\ ServiceReturns(Response(TRUE, images, ResultRequest, NoText))
            /\ UNCHANGED item
       ELSE /\ Goto("save_write")
            /\ item' = NextBytes(list, from) - 1

\* await axios.post(...) of an image method (predictions = data.predictions
\* || []) or of speech synthesis (one output when data.audioContent is set)
ImagePredict ==
    /\ pc = "post"
    /\ Method(tool) \in ImageTools \cup {"generate_speech"}
    /\ \/ \E e \in HttpErrors :
            /\ Fails(e)
            /\ UNCHANGED <<predictions, item, produced>>
       \/ \E r \in PredictReplies :
            /\ Method(tool) \in ImageTools
            /\ predictions' = r.predictions
            /\ SaveLoop(1, <<>>, predictions')
       \/ \E audioContent \in BOOLEAN :
            /\ Method(tool) = "generate_speech"
            /\ predictions' = IF audioContent THEN <<"bytes">> ELSE <<>>
            /\ SaveLoop(1, <<>>, predictions')
    /\ UNCHANGED <<tool, request, elapsed, polls, reply, prediction>>
    /\ UNCHANGED <<listFile, concatList>>
    /\ Resumes

\* await fs.writeFile(filePath, buffer) for predictions[item]
SaveWrite ==
    /\ pc = "save_write"
    /\ \/ Goto("save_stat")
       \/ Fails(WriteError)
    /\ UNCHANGED <<tool, request, elapsed, polls, reply, prediction,
                   predictions, item, produced>>
    /\ UNCHANGED <<listFile, concatList>>
    /\ Resumes

\* await this.getFileInfo(filePath), the push, and the loop goes on
SaveStat ==
    /\ pc = "save_stat"
    /\ \/ /\ Fails(FileInfoError)
          /\ UNCHANGED <<item, produced>>
       \/ \E n \in Sizes :
            SaveLoop(item + 2, Append(produced, Artifact(n, CurrentRequest)),
                     predictions)
    /\ UNCHANGED <<tool, request, elapsed, polls, reply, prediction,
                   predictions>>
    /\ UNCHANGED <<listFile, concatList>>
    /\ Resumes

(***************************************************************************)
(* LyriaService.generateMultiPartMusic.                                    *)
(***************************************************************************)
\* const allMusicFiles = []; the for loop is entered with i = 0
MultiPartStart ==
    /\ pc = "outer_start"
    /\ tool = "generate_multipart_music"
    /\ MultiPartLoop(0, <<>>)
    /\ UNCHANGED <<tool, request, elapsed, polls, reply, prediction,
                   predictions, item, produced, raised>>
    /\ UNCHANGED <<listFile, concatList>>
    /\ Resumes

\* await new Promise(resolve => setTimeout(resolve, 2000)) is over: i++ and
\* the loop goes on
PartDelay ==
    /\ pc = "part_delay"
    /\ MultiPartLoop(index + 1, collected)
    /\ UNCHANGED <<tool, request, elapsed, polls, reply, prediction,
                   predictions, item, produced, raised>>
    /\ UNCHANGED <<listFile, concatList>>
    /\ Resumes

(***************************************************************************)
(* ChirpService.generateLongFormSpeech.                                    *)
(***************************************************************************)
\* const chunks = this.splitTextIntoChunks(text, maxChunkSize); const
\* allAudio = []; the for loop is entered with i = 0
LongSpeechStart ==
    /\ pc = "outer_start"
    /\ tool = "generate_long_speech"
    /\ ChunkLoop(0, <<>>)
    /\ UNCHANGED <<tool, request, elapsed, polls, reply, prediction,
                   predictions, item, produced, raised>>
    /\ UNCHANGED <<listFile, concatList>>
    /\ Resumes

\* await new Promise(resolve => setTimeout(resolve, 1000)) is over: i++ and
\* the loop goes on
ChunkDelay ==
    /\ pc = "chunk_delay"
    /\ ChunkLoop(index + 1, collected)
    /\ UNCHANGED <<tool, request, elapsed, polls, reply, prediction,
                   predictions, item, produced, raised>>
    /\ UNCHANGED <<listFile, concatList>>
    /\ Resumes

(***************************************************************************)
(* AVToolService.getSystemInfo.                                            *)
(***************************************************************************)
SystemInfo(version, formats, codecs) ==
    [ffmpegVersion |-> version, supportedFormats |-> formats,
     availableCodecs |-> codecs]

\* the three await execAsync('ffmpeg -version' / '-formats' / '-codecs'):
\* the next one is started, the information is returned, or the catch
\* block returns the 'not installed' information
SystemInfoStep ==
    /\ tool = "get_system_info"
    /\ pc \in {"start", "info_formats", "info_codecs"}
    /\ \/ /\ pc = "start"
          /\ Goto("info_formats")
       \/ /\ pc = "info_formats"
          /\ Goto("info_codecs")
       \/ /\ pc = "info_codecs"
          /\ pc' = "returned"
          /\ outcome' = Returned(SystemInfo("6.0", 20, 20))
          /\ UNCHANGED <<index, collected, trace, raised>>
       \/ /\ pc' = "returned"
          /\ raised' = ExecError
          /\ outcome' = Returned(SystemInfo("not installed", 0, 0))
          /\ UNCHANGED <<index, collected, trace>>
    /\ UNCHANGED <<tool, request, elapsed, polls, reply, prediction,
                   predictions, item, produced>>
    /\ UNCHANGED <<listFile, concatList>>
    /\ Resumes

Next ==
    \/ CallTool
    \/ Validate
    \/ ReadInput
    \/ Auth
    \/ Predict
    \/ ProcessDirect
    \/ PollLoop
    \/ PollStatus
    \/ PollProcess
    \/ PollSleep
    \/ AVValidate
    \/ Ffmpeg
    \/ Stat
    \/ MergeWrite
    \/ ConcatRead
    \/ MergeFfmpeg
    \/ MergeUnlink
    \/ MergeStat
    \/ MergeCleanup
    \/ BatchStart
    \/ BatchDelay
    \/ ReadMask
    \/ ImagePredict
    \/ SaveWrite
    \/ SaveStat
    \/ MultiPartStart
    \/ PartDelay
    \/ LongSpeechStart
    \/ ChunkDelay
    \/ SystemInfoStep
    \/ PeerWrite
    \/ PeerRead
    \/ PeerFfmpeg
    \/ PeerUnlink
    \/ PeerCleanup

Spec == Init /\ [][Next]_vars

\* the tools that poll, alone: generate_video, style_transfer_video,
\* generate_music and the music tools that call the poller
PollInit == Init /\ tool \in PollingTools

PollNext ==
    \/ CallTool
    \/ Validate
    \/ ReadInput
    \/ Auth
    \/ Predict
    \/ ProcessDirect
    \/ PollLoop
    \/ PollStatus
    \/ PollProcess
    \/ PollSleep

(***************************************************************************)
(* The process from its start: main, the signal handlers, and the          *)
(* tools/call requests of a client, one at a time.                         *)
(***************************************************************************)
NoRequest == [prompt |-> "undefined"]

\* the module is loaded: the signal handlers are registered and main() is
\* about to run
ProcInit ==
    /\ tool = "none"
    /\ request = NoRequest
    /\ pc = "main"
    /\ elapsed = 0
    /\ polls = 0
    /\ reply = NoReply
    /\ prediction = "undefined"
    /\ predictions = <<>>
    /\ item = 0
    /\ produced = <<>>
    /\ index = 0
    /\ collected = <<>>
    /\ trace = <<>>
    /\ raised = NoError
    /\ outcome = Pending
    /\ answer = NoAnswer
    /\ inflight = 0
    /\ timer = 0
    /\ env \in Envs
    /\ exit = NoExit
    /\ listFile = "none"
    /\ concatList = "unread"
    /\ peer = NoPeer
    /\ body = NoBody

\* what a step of the process outside a tool invocation leaves alone
ProcStep ==
    UNCHANGED <<tool, request, elapsed, polls, reply, prediction, predictions,
                item, produced, index, collected, trace, raised, outcome,
                answer, inflight, timer, env, exit, listFile, concatList,
                peer, body>>

\* main up to await server.start(): the configuration is read from the
\* environment; without an API key and a project ID the process exits with
\* code 1 before the server is constructed; the constructor may throw
Main ==
    /\ pc = "main"
    /\ IF MissingCredentials(Config(env))
       THEN Exit(1, "main")
       ELSE \/ pc' = "connect" /\ ProcStep
            \/ Exit(1, "catch")

\* await server.start(): this.server.connect(transport) resolves or throws
\* into the catch block of main
Connect ==
    /\ pc = "connect"
    /\ \/ pc' = "serving" /\ ProcStep
       \/ Exit(1, "catch")

\* the rejection of the ensureOutputDir() call a service constructor does
\* not await (fs.mkdir failed) reaches the unhandledRejection handler
UnhandledRejection ==
    /\ pc \in {"connect", "serving"}
    /\ Exit(1, "unhandledRejection")

\* tool names and arguments of the requests the client sends
ProcRequests ==
    {[tool |-> "generate_video", request |-> VeoBase],
     [tool |-> "generate_video", request |-> [VeoBase EXCEPT !.prompt = ""]],
     [tool |-> "process_media",
      request |-> AVRequest("trim", TRUE, <<"a.mp4">>)],
     [tool |-> "render_hologram", request |-> [prompt |-> "sunset"]]}

\* a tools/call request reaches the handler, the request before it ended
Receive ==
    /\ pc \in {"serving", "returned", "thrown", "rejected"}
    /\ \E r \in ProcRequests :
          /\ tool' = r.tool
          /\ request' = r.request
    /\ pc' = "call"
    /\ elapsed' = 0
    /\ polls' = 0
    /\ reply' = NoReply
    /\ prediction' = "undefined"
    /\ predictions' = <<>>
    /\ item' = 0
    /\ produced' = <<>>
    /\ index' = 0
    /\ collected' = <<>>
    /\ trace' = <<>>
    /\ raised' = NoError
    /\ outcome' = Pending
    /\ answer' = NoAnswer
    /\ body' = NoBody
    /\ UNCHANGED <<inflight, timer, env, exit, listFile, concatList, peer>>

\* a handler that lets the work in progress end first
OnSignalGraceful(sig) == inflight = 0 /\ timer = 0 /\ Exit(0, sig)

\* the handler of SIGINT and of SIGTERM: process.exit(0)
OnSignal(sig) == Exit(0, sig)

Signals == {"SIGINT", "SIGTERM"}

\* a signal is delivered to the running process
Signal ==
    /\ pc # "exited"
    /\ \E sig \in Signals : OnSignal(sig)

ProcNext ==
    \/ Main
    \/ Connect
    \/ UnhandledRejection
    \/ Receive
    \/ Signal
    \/ CallTool
    \/ Validate
    \/ Auth
    \/ Predict
    \/ ProcessDirect
    \/ PollLoop
    \/ PollStatus
    \/ PollProcess
    \/ PollSleep
    \/ AVValidate
    \/ Ffmpeg
    \/ Stat

ProcSpec == ProcInit /\ [][ProcNext]_vars

\* every status request completes and every sleep ends
PollFairSpec == PollInit /\ [][PollNext]_vars /\ WF_vars(PollNext)

(***************************************************************************)
(* Properties of the pollers.                                              *)
(***************************************************************************)
InPoller ==
    pc \in {"poll_loop", "poll_get", "poll_process", "poll_sleep_try",
            "poll_sleep_catch"}

Ended == pc \in {"returned", "thrown"}

PollService == Service(Method(tool))

\* the error the caller of the tool sees when the poller throws error: the
\* catch block of the method that polls wraps it, and so does the catch
\* block of generateMultiPartMusic when the method runs for one of its parts
Surfaced(error) ==
    LET wrapped == handleError(error, OperationName(Method(tool)))
    IN  IF tool \in WrappingTools
        THEN handleError(wrapped, OperationName(tool))
        ELSE wrapped

TimeoutSurfaced == Surfaced(TimeoutError(PollService))

\* C1: a status reply with done=true and an error, received below the
\* maximum wait, ends the poller at once with 'Video/Music generation
\* failed: <message>' and no further status request
C1_DoneErrorIsTerminal ==
    [][(/\ pc = "poll_get"
        /\ reply'.failure = NoError
        /\ reply'.done
        /\ reply'.error # NoText
        /\ elapsed' < maxWaitTime(PollService))
       => (/\ pc' = "thrown"
           /\ outcome'.error =
                 Surfaced(GenerationFailed(PollService, reply'.error)))]_vars

\* C2: once a status reply with done=true, no error and a predictions
\* payload has been received, the poller returns the processed result of
\* that payload without another status request
C2_DonePayloadReturns ==
    [][pc = "poll_process"
       => (/\ polls' = polls
           /\ pc' \notin {"poll_sleep_catch", "poll_loop", "poll_get", "thrown"}
           /\ tool \in PollingTools
                => (/\ pc' = "returned"
                    /\ outcome'.result \in
                          {o.result : o \in
                              {x \in ProcessResultOutcomes(prediction,
                                                          EmptyRequest) :
                                  x.error = NoError}}))]_vars

\* C3 as stated: no result is returned by a poller at an elapsed time above
\* the maximum wait
C3_NoResultAfterMaxWait ==
    (polls > 0 /\ outcome.status = "returned")
        => elapsed <= maxWaitTime(PollService)

\* C3 amended: whenever the poller reads the clock (the loop condition, the
\* catch block) at or above the maximum wait it fails with the timeout
\* error, a status request is only issued below the maximum wait, and the
\* poller throws nothing but the timeout error
C3_TimeoutAtClockChecks ==
    [][/\ (pc = "poll_loop" /\ elapsed >= maxWaitTime(PollService))
            => (pc' = "thrown" /\ outcome'.error = TimeoutSurfaced)
       /\ (pc = "poll_loop" /\ pc' = "poll_get")
            => elapsed < maxWaitTime(PollService)
       /\ (InPoller /\ pc' = "poll_sleep_catch")
            => elapsed' < maxWaitTime(PollService)
       /\ (pc \in {"poll_get", "poll_process"} /\ pc' = "thrown")
            => (/\ elapsed' >= maxWaitTime(PollService)
                /\ outcome'.error = TimeoutSurfaced)
       /\ (InPoller /\ pc' = "thrown") => outcome'.status = "thrown"]_vars

C3_Witness ==
    /\ pc = "thrown"
    /\ polls > 0
    /\ outcome.error = TimeoutSurfaced
    /\ elapsed >= maxWaitTime(PollService)

\* C4 as stated: after a status request that failed below the maximum wait
\* the poller sleeps and then issues another status request
C4_FailedRequestIsFollowedByRequest ==
    [][/\ (pc = "poll_get" /\ reply'.failure # NoError
             /\ elapsed' < maxWaitTime(PollService))
            => pc' = "poll_sleep_catch"
       /\ (pc = "poll_loop" /\ reply.failure # NoError)
            => (pc' = "poll_get" /\ polls' = polls + 1)]_vars

\* C4 amended: a status request that fails below the maximum wait is not
\* surfaced; the poller sleeps at least one poll interval and reads the
\* clock again: below the maximum wait it issues another status request,
\* otherwise it fails with the timeout error
C4_FailedRequestIsRetriedUntilTimeout ==
    [][/\ (pc = "poll_get" /\ reply'.failure # NoError
             /\ elapsed' < maxWaitTime(PollService))
            => (pc' = "poll_sleep_catch" /\ outcome' = Pending)
       /\ pc = "poll_sleep_catch"
            => (/\ pc' = "poll_loop"
                /\ elapsed' >= elapsed + pollInterval(PollService)
                /\ polls' = polls)
       /\ (pc = "poll_loop" /\ reply.failure # NoError)
            => IF elapsed < maxWaitTime(PollService)
               THEN pc' = "poll_get" /\ polls' = polls + 1
               ELSE pc' = "thrown" /\ outcome'.error = TimeoutSurfaced
       /\ (InPoller /\ reply'.failure # NoError /\ pc' = "thrown")
            => outcome'.error = TimeoutSurfaced]_vars

C4_Witness ==
    /\ pc = "poll_get"
    /\ polls >= 2
    /\ reply.failure # NoError
    /\ outcome = Pending

\* C5: a running poller always comes to an end, by a result or by an error;
\* every sleep of the poller moves its clock on, which is what bounds the
\* number of status requests
C5_PollerTerminates ==
    /\ InPoller ~> (~InPoller /\ (Ended => outcome.status # "pending"))
    /\ [][(pc \in {"poll_sleep_try", "poll_sleep_catch"})
            => (pc' = "poll_loop" /\ elapsed < elapsed')]_vars

C5_Witness == InPoller /\ polls >= 3

(***************************************************************************)
(* Properties of batchProcess.                                             *)
(***************************************************************************)
IsBatch == tool = "batch_process_media"

\* operation i (from 1) of the batch has ended, with or without an error
ItemEnded(i, ok) ==
    \E k \in 1..Len(trace) : trace[k] = Event("end", i - 1, ok)

\* GoogleAICreativeServer.handleBatchProcessMedia: the N and M of its
\* 'Batch processing completed: N/M operations successful'
BatchReport(results) ==
    [successCount |->
        Cardinality({i \in 1..Len(results) : results[i].success}),
     total |-> Len(results)]

\* C6: whatever makes an operation fail, the batch goes on and returns one
\* entry per operation, in order, each with its request, the failed ones
\* with success=false and the error message
C6_BatchContinuesPastFailures ==
    (IsBatch /\ Ended)
        => /\ outcome.status = "returned"
           /\ Len(outcome.result) = Len(request.operations)
           /\ \A i \in 1..Len(request.operations) :
                 /\ outcome.result[i].request = request.operations[i]
                 /\ ItemEnded(i, FALSE)
                       => (/\ ~outcome.result[i].success
                           /\ outcome.result[i].error # NoText)

\* C7: the N/M a returned batch is reported with is exact: N is the number
\* of operations whose processRequest ended without an error, M the number
\* of operations submitted, and N plus the number of failed ones is M
C7_BatchCountsExact ==
    (IsBatch /\ outcome.status = "returned")
        => LET report == BatchReport(outcome.result)
               n == Len(request.operations)
           IN  /\ report.successCount =
                     Cardinality({i \in 1..n : ItemEnded(i, TRUE)})
               /\ report.total = n
               /\ report.successCount
                     + Cardinality({i \in 1..n : ItemEnded(i, FALSE)}) = n

C7_Witness ==
    /\ IsBatch
    /\ outcome.status = "returned"
    /\ Len(request.operations) = 3
    /\ BatchReport(outcome.result).successCount = 2

\* C8: the operations of a batch run one after the other in list order,
\* each started only after the one before has ended and a 1000 ms timer
\* has then run; the timer is set after every operation but the last,
\* whether it failed or not
C8_BatchSequentialWithDelay ==
    IsBatch =>
        /\ \A k \in 1..Len(trace) :
              LET i == (k - 1) \div 3
              IN  CASE (k - 1) % 3 = 0 -> trace[k] = Event("start", i, TRUE)
                    [] (k - 1) % 3 = 1 ->
                          trace[k].ev = "end" /\ trace[k].n = i
                    [] OTHER -> /\ trace[k] = Event("timer", 1000, TRUE)
                                /\ i + 1 < Len(request.operations)
        /\ pc = "batch_delay"
              => (Len(trace) = 3 * (index + 1) /\ Len(collected) = index + 1)
        /\ (pc \notin {"call", "outer_start", "batch_delay", "returned",
                        "thrown"})
              => (Len(trace) = 3 * index + 1 /\ Len(collected) = index)
        /\ (outcome.status = "returned" /\ Len(request.operations) > 0)
              => Len(trace) = 3 * Len(request.operations) - 1

C8_Witness ==
    /\ IsBatch
    /\ outcome.status = "returned"
    /\ Len(trace) = 8
    /\ ~trace[2].ok
    /\ trace[5].ok

(***************************************************************************)
(* Properties of the responses and of the errors of the service methods.   *)
(***************************************************************************)
\* the *Response objects a finished call of an image, video, speech, music
\* or media processing tool has returned (a batch returns one per operation)
ReturnedResponses ==
    IF outcome.status # "returned"
          \/ tool \in {"get_system_info"} \cup WrappingTools
    THEN {}
    ELSE IF IsBatch
    THEN {outcome.result[i] : i \in 1..Len(outcome.result)}
    ELSE {outcome.result}

\* C9: every response returned with success=true lists at least one output
\* artifact, and every artifact listed has a size of 0 or more
C9_SuccessHasArtifact ==
    \A r \in ReturnedResponses :
        r.success
            => /\ Len(r.artifacts) >= 1
               /\ \A k \in 1..Len(r.artifacts) : r.artifacts[k].size >= 0

\* text begins with prefix
HasPrefix(text, prefix) ==
    /\ Len(text) >= Len(prefix)
    /\ SubSeq(text, 1, Len(prefix)) = prefix

\* part occurs in text
Contains(text, part) ==
    \E i \in 0..(Len(text) - Len(part)) :
        SubSeq(text, i + 1, i + Len(part)) = part

\* a catch block is entered in this step; raised is the error it is given
CatchEntered == raised' # NoError /\ raised' # raised

\* C10 as stated: every error raised inside a service operation reaches the
\* caller as a thrown error whose message is '<operation name> failed: '
\* followed by text that carries the message of the error
C10_EveryErrorReachesCaller ==
    [][CatchEntered
       => (/\ pc' = "thrown"
           /\ outcome'.status = "thrown"
           /\ HasPrefix(outcome'.error.message,
                        <<OperationName(tool), " failed: ">>)
           /\ Contains(outcome'.error.message, raised'.message))]_vars

\* '<operation> failed: ' followed by the API's error message or else the
\* status text, with ' (Status: <status>)', for an error with a response;
\* by 'Network error - ' and the message for an error with a request only;
\* by the message for any other error
WrappedMessage(error, operation) ==
    <<operation, " failed: ">>
    \o CASE error.kind = "response" ->
               (IF error.apiMessage # NoText THEN error.apiMessage
                                             ELSE error.statusText)
               \o <<" (Status: ", error.status, ")">>
         [] error.kind = "request" -> <<"Network error - ">> \o error.message
         [] OTHER -> error.message

\* the message the caller of the tool is to see for error: wrapped with the
\* operation name of the method that caught it, and for a part of a
\* multi-part composition wrapped once more
SurfacedMessage(error) ==
    LET inner == WrappedMessage(error, OperationName(Method(tool)))
    IN  IF tool \in WrappingTools
        THEN <<OperationName(tool), " failed: ">> \o inner
        ELSE inner

\* C10 amended: an error given to the catch block of a service method is
\* thrown to the caller with the wrapped message; batchProcess turns the
\* error its operation threw into a success=false entry with that message
\* (or fails reading the inputFiles the operation lacks); the catch block
\* of a polling loop keeps the error to itself below the maximum wait; the
\* catch block of mergeFiles removes its list file before it throws 'Merge
\* failed: <error>' to the catch block of processRequest; and getSystemInfo
\* returns its 'not installed' information
C10_CaughtErrorsAreRethrownWrapped ==
    [][CatchEntered
       => IF pc' = "poll_sleep_catch"
          THEN outcome' = Pending /\ elapsed' < maxWaitTime(PollService)
          ELSE IF pc' = "merge_cleanup"
          THEN outcome' = Pending
          ELSE IF tool = "get_system_info"
          THEN outcome' = Returned(SystemInfo("not installed", 0, 0))
          ELSE IF IsBatch
          THEN \/ /\ CurrentRequest.hasInputFiles
                  /\ collected' =
                        Append(collected,
                               [success |-> FALSE, artifacts |-> <<>>,
                                request |-> CurrentRequest,
                                error |-> SurfacedMessage(raised')])
               \/ /\ ~CurrentRequest.hasInputFiles
                  /\ pc' = "thrown"
                  /\ outcome'.error = TypeErrorUndefined
          ELSE /\ pc' = "thrown"
               /\ outcome'.status = "thrown"
               /\ outcome'.error.message = SurfacedMessage(raised')]_vars

C10_Witness ==
    /\ pc = "thrown"
    /\ tool = "edit_image"
    /\ raised.kind = "response"
    /\ raised.apiMessage = NoText
    /\ outcome.error.message =
          <<"Imagen image editing", " failed: ", "Internal Server Error",
            " (Status: ", "500", ")">>

(***************************************************************************)
(* Two merge requests in flight on one server.                             *)
(***************************************************************************)
\* C11 as stated: with two process_media merge requests in flight on one
\* server, each ffmpeg concat run reads the file list its own request wrote,
\* and from the end of a request's writeFile to the end of its ffmpeg run the
\* list file holds what that request wrote: the other request neither
\* overwrites nor deletes it
C11_MergesShareNoState ==
    /\ concatList \in {"unread", "main"}
    /\ peer.concatList \in {"unread", "peer"}
    /\ pc = "merge_ffmpeg" => listFile = "main"
    /\ peer.pc = "ffmpeg" => listFile = "peer"

MultiItem ==
    \/ tool \in WrappingTools
    \/ /\ tool = "process_media"
       /\ pc \notin {"call", "rejected"}
       /\ AVValidateRequest(request) = Valid
       /\ request.operation \in LoopOperations

\* the number of items of the request
ItemCount ==
    CASE tool = "generate_multipart_music" -> Len(request.parts)
      [] tool = "generate_long_speech" ->
            Len(splitTextIntoChunks(request.text, maxChunkSize))
      [] OTHER -> Len(request.inputFiles)

\* the number of items processed to their end
ItemsDone == IF tool \in WrappingTools THEN index ELSE Len(produced)

\* C13: a request of several input files (extract_audio, trim, resize,
\* convert), parts (multi-part music) or chunks (long-form speech) is all or
\* nothing: a response is returned only when every item has been processed;
\* when the service method's catch block gets the failure of an item the
\* request is thrown as a whole with no response, whatever the items before
\* have produced; the client gets a tool result only for a returned
\* response; and once thrown, nothing more of the request is processed
C13_AllOrNothing ==
    /\ [](MultiItem =>
            /\ outcome.status = "returned" => ItemsDone = ItemCount
            /\ outcome.status = "thrown" => outcome.result = NoResponse
            /\ answer = ToolResult <=> outcome.status = "returned")
    /\ [][MultiItem =>
            /\ (CatchEntered /\ pc' # "poll_sleep_catch")
                  => (/\ pc' = "thrown"
                      /\ outcome'.status = "thrown"
                      /\ answer'.code = "InternalError")
            /\ pc = "thrown"
                  => UNCHANGED <<pc, outcome, answer, index, item, produced,
                                 collected, inflight>>]_vars

C13_Witness ==
    /\ tool = "process_media"
    /\ request.operation = "extract_audio"
    /\ pc = "thrown"
    /\ item = 1
    /\ Len(produced) = 1
    /\ answer.code = "InternalError"

(***************************************************************************)
(* The interval of the pollers.                                            *)
(***************************************************************************)
\* 30 s for video, 20 s for music
FixedInterval == IF Method(tool) \in VideoTools THEN 30 * 1000 ELSE 20 * 1000

Sleeping == {"poll_sleep_try", "poll_sleep_catch"}

PollPcs == Sleeping \cup {"poll_loop", "poll_get", "poll_process"}

\* C14: between two consecutive status requests of a poller run there is
\* exactly one sleep, of 30 s for video and 20 s for music whatever the
\* number of requests made: a status request is issued from the head of the
\* loop only; the head of the loop is reached from a sleep, or with no
\* request made yet; a request that returned not-done or done without a
\* payload, or that failed below the maximum wait, is followed by a sleep;
\* and the sleep sets a timer of the fixed length and lasts at least that
\* long
C14_FixedPollInterval ==
    [][/\ (pc' = "poll_get" /\ pc # pc') => pc = "poll_loop"
       /\ (pc' = "poll_loop" /\ pc # pc') => (pc \in Sleeping \/ polls' = 0)
       /\ (pc = "poll_get" /\ pc' \in PollPcs) =>
             pc' \in Sleeping \cup {"poll_process"}
       /\ (pc = "poll_process" /\ pc' \in PollPcs) => pc' \in Sleeping
       /\ pc' \in Sleeping =>
             (timer' = FixedInterval /\ pc \in {"poll_get", "poll_process"})
       /\ pc \in Sleeping =>
             (pc' = "poll_loop" /\ elapsed' >= elapsed + FixedInterval)]_vars

C14_Witness ==
    /\ tool = "generate_music"
    /\ pc = "poll_sleep_catch"
    /\ polls = 2
    /\ reply.failure # NoError
    /\ timer = 20 * 1000

(***************************************************************************)
(* Properties of the process.                                              *)
(***************************************************************************)
\* a tool invocation is in progress
InProgress == pc \notin {"main", "connect", "serving", "returned", "thrown",
                         "rejected", "exited"}

\* C15: SIGINT or SIGTERM ends the process in whatever state it is (starting,
\* idle, in a request, in a poll, in an ffmpeg run): the exit code is 0, the
\* external call in flight is neither awaited nor cancelled and the client
\* is answered nothing more; exit code 0 comes from a signal only; and an
\* invocation in progress ends by returning, by throwing or with the
\* process, in no other way
C15_SignalExitsAtOnce ==
    /\ [](pc # "exited" => ENABLED Signal)
    /\ [](exit.code = 0 <=> exit.by \in Signals)
    /\ [][(exit'.by \in Signals /\ exit.by = "none")
             => /\ pc' = "exited"
                /\ exit'.code = 0
                /\ exit'.at = pc
                /\ inflight' = inflight
                /\ answer' = answer
                /\ outcome' = outcome]_vars
    /\ [][(InProgress /\ ~InProgress')
             => pc' \in {"returned", "thrown", "rejected", "exited"}]_vars
    /\ [][pc = "exited" => UNCHANGED vars]_vars

C15_Witness ==
    /\ pc = "exited"
    /\ exit = [code |-> 0, by |-> "SIGTERM", at |-> "poll_get"]
    /\ inflight = 1
    /\ answer = NoAnswer

\* an API key or a project ID is in the environment
HasCredentials ==
    \/ env.GOOGLE_AI_API_KEY # ""
    \/ env.GOOGLE_CLOUD_PROJECT_ID # ""
    \/ env.GCLOUD_PROJECT # ""

\* C18: the server is constructed and started only with GOOGLE_AI_API_KEY or
\* a project ID (GOOGLE_CLOUD_PROJECT_ID or GCLOUD_PROJECT) in the
\* environment: with neither, main exits with code 1 and constructs no
\* server; with one of them it goes on to start the server; and an exception
\* thrown while the server is constructed or started ends the process with
\* exit code 1
C18_StartupNeedsCredentials ==
    /\ [](pc \notin {"main", "exited"} => HasCredentials)
    /\ [](exit.by \in {"main", "catch"} => exit.code = 1)
    /\ [][(pc = "main" /\ pc' # "main" /\ exit'.by \notin Signals)
             => IF HasCredentials
                THEN \/ pc' = "connect" /\ exit' = NoExit
                     \/ exit' = [code |-> 1, by |-> "catch", at |-> "main"]
                ELSE /\ pc' = "exited"
                     /\ exit' = [code |-> 1, by |-> "main", at |-> "main"]]_vars
    /\ [][(pc = "connect" /\ pc' # "connect")
             => \/ pc' = "serving" /\ exit' = NoExit
                \/ pc' = "exited" /\ (exit'.code = 1 \/ exit'.by \in Signals)]_vars

C18_Witness ==
    /\ pc = "exited"
    /\ env = Env("", "", "")
    /\ exit = [code |-> 1, by |-> "main", at |-> "main"]

C17_UnknownToolIsMethodNotFound ==
    /\ (tool \notin ListedTools /\ pc # "call")
          => /\ pc = "rejected"
             /\ inflight = 0
             /\ answer = McpError("MethodNotFound", <<"Unknown tool: ", tool>>)
    /\ (tool \in ListedTools /\ outcome.status = "thrown")
          => answer = McpError("InternalError",
                               <<"Tool execution failed: ">>
                                  \o outcome.error.message)

(***************************************************************************)
(* Validation before the external call.                                    *)
(***************************************************************************)
\* the validation error generate_image is to fail with, Valid when the
\* prompt and every numeric field given are in range
ImageRangeError(req) ==
    IF req.prompt = "" THEN <<"Prompt is required for image generation">>
    ELSE IF PromptLength(req.prompt) > 1000
    THEN <<"Prompt must be 1000 characters or less">>
    ELSE IF "width" \in req.given /\ req.width \notin 64..2048
    THEN <<"Width must be between 64 and 2048 pixels">>
    ELSE IF "height" \in req.given /\ req.height \notin 64..2048
    THEN <<"Height must be between 64 and 2048 pixels">>
    ELSE IF "numImages" \in req.given /\ req.numImages \notin 1..8
    THEN <<"Number of images must be between 1 and 8">>
    ELSE Valid

\* C19 as stated: a generate_image request with numImages outside 1..8,
\* width or height outside 64..2048 (the value 0 too), or a prompt that is
\* empty or longer than 1000 characters fails with the validation error of
\* that field and no predict request is sent
C19_ImageRangesEnforced ==
    (/\ tool = "generate_image"
     /\ pc \notin {"call", "start"}
     /\ ImageRangeError(request) # Valid)
        => /\ pc = "thrown"
           /\ raised = Error(ImageRangeError(request))
           /\ inflight = 0

\* the operation is one of the six, inputFiles is a list with an entry,
\* every input file exists, and add_subtitles has two input files
AVWellFormed(req) ==
    /\ req.operation \in {"merge", "extract_audio", "add_subtitles", "trim",
                          "resize", "convert"}
    /\ req.hasInputFiles
    /\ Len(req.inputFiles) >= 1
    /\ \A i \in 1..Len(req.inputFiles) : req.inputFiles[i] \in ExistingFiles
    /\ req.operation = "add_subtitles" => Len(req.inputFiles) = 2

\* the error a request that is not well formed is to fail with
AVFormError(req) ==
    IF req.operation = "" THEN <<"Operation is required">>
    ELSE IF ~req.hasInputFiles \/ Len(req.inputFiles) = 0
    THEN <<"At least one input file is required">>
    ELSE IF req.operation \notin {"merge", "extract_audio", "add_subtitles",
                                  "trim", "resize", "convert"}
    THEN <<"Operation must be one of: ",
           "merge, extract_audio, add_subtitles, trim, resize, convert">>
    ELSE IF \E i \in 1..Len(req.inputFiles) :
               req.inputFiles[i] \notin ExistingFiles
    THEN <<"Input file not found: ",
           req.inputFiles[CHOOSE i \in 1..Len(req.inputFiles) :
               /\ req.inputFiles[i] \notin ExistingFiles
               /\ \A j \in 1..(i - 1) : req.inputFiles[j] \in ExistingFiles]>>
    ELSE <<"Subtitle operation requires exactly 2 files: video and subtitle file">>

\* C20: process_media runs an ffmpeg command only for a request whose
\* operation is one of the six, whose inputFiles is a non-empty list of
\* files that exist, and which for add_subtitles has exactly two input
\* files; any other request fails with the error of the check it violates
\* and no ffmpeg process is started
C20_NoFfmpegUnlessValid ==
    tool = "process_media" =>
        /\ pc \in {"merge_write", "merge_ffmpeg", "ffmpeg", "stat",
                   "merge_unlink", "merge_stat", "merge_cleanup", "returned"}
              => AVWellFormed(request)
        /\ (~AVWellFormed(request) /\ pc \notin {"call", "start"})
              => /\ pc = "thrown"
                 /\ raised = Error(AVFormError(request))
                 /\ inflight = 0
                 /\ listFile # "main"
                 /\ produced = <<>>

C20_Witness ==
    /\ tool = "process_media"
    /\ request = AVRequest("add_subtitles", TRUE, <<"a.mp4">>)
    /\ pc = "thrown"
    /\ raised = SubtitleCountError

(***************************************************************************)
(* The chunks of a long text.                                              *)
(***************************************************************************)
\* C21 as stated: every chunk splitTextIntoChunks makes of a text, and so
\* every prompt generateLongFormSpeech sends to speech synthesis, is at most
\* maxChunkSize (4000) characters long, the separating spaces and the
\* appended periods counted
C21_ChunksWithinMaxSize ==
    (tool = "generate_long_speech" /\ pc # "call")
        => LET chunks == splitTextIntoChunks(request.text, maxChunkSize)
           IN  \A i \in 1..Len(chunks) : chunks[i] <= 4000

(***************************************************************************)
(* The list file of a merge run on its own.                                *)
(***************************************************************************)
\* a process_media merge request with no other merge request in flight
MergeAlone ==
    /\ tool = "process_media"
    /\ request.operation = "merge"
    /\ peer = NoPeer

\* the message the caller gets when mergeFiles fails because of cause
MergeReport(cause) ==
    <<"AVTool processing", " failed: ", "Merge failed: ", "Error: ">>
    \o cause.message

\* C22 as stated: after a merge run on its own has returned, and after it
\* has failed because ffmpeg or the stat of the output file failed, the
\* list file merge_list.txt is gone, and the failure is reported as 'Merge
\* failed: <cause>'
C22_ListFileAlwaysRemoved ==
    MergeAlone =>
        /\ pc = "returned" => listFile = "none"
        /\ (pc = "thrown" /\ raised \in {MergeFailed(ExecError),
                                         MergeFailed(FileInfoError)})
              => /\ listFile = "none"
                 /\ \E cause \in {ExecError, FileInfoError} :
                       /\ raised = MergeFailed(cause)
                       /\ outcome.error.message = MergeReport(cause)

\* C22 amended: a merge run on its own returns only after it has removed
\* its list file, and the file is gone when the stat of the output file
\* fails, which comes after the removal; when ffmpeg fails, or the removal
\* in the try block fails, the catch block tries the removal (once more)
\* and ignores its failure, so the file is gone or still holds the list of
\* this run; every one of these failures is reported as 'Merge failed:
\* Error: <message of the cause>' with the cause the try block failed with
C22_ListFileRemovedUnlessUnlinkFails ==
    /\ [](MergeAlone =>
            /\ pc \in {"merge_stat", "returned"} => listFile = "none"
            /\ (pc = "thrown" /\ raised = MergeFailed(FileInfoError))
                  => listFile = "none"
            /\ (pc = "thrown" /\ raised \in {MergeFailed(ExecError),
                                             MergeFailed(UnlinkError)})
                  => listFile \in {"none", "main"}
            /\ (pc = "thrown" /\ AVValidateRequest(request) = Valid
                   /\ raised # WriteError)
                  => \E cause \in {ExecError, UnlinkError, FileInfoError} :
                        /\ raised = MergeFailed(cause)
                        /\ outcome.error.message = MergeReport(cause))
    /\ [][(MergeAlone /\ pc = "merge_cleanup")
             => /\ pc' = "thrown"
                /\ raised' = MergeFailed(raised)
                /\ listFile' \in {"none", listFile}]_vars

C22_Witness ==
    /\ MergeAlone
    /\ pc = "thrown"
    /\ raised = MergeFailed(FileInfoError)
    /\ listFile = "none"
    /\ outcome.error.message = MergeReport(FileInfoError)

(***************************************************************************)
(* The emotion of a speech request.                                        *)
(***************************************************************************)
NonNeutralEmotions == {"happy", "sad", "excited", "calm", "angry"}

\* C23 as stated: the synthesis request of generate_speech carries SSML and
\* no plain text for an emotion other than neutral, and the plain text for
\* neutral or no emotion; and the SSML depends on the emotion: the request
\* that differs in its non-neutral emotion only would be sent with another
\* body
C23_EmotionShapesRequest ==
    (tool = "generate_speech" /\ pc = "post")
        => IF request.emotion \in {"", "neutral"}
           THEN body.input = [field |-> "text", value |-> <<request.prompt>>]
           ELSE /\ body.input.field = "ssml"
                /\ \A e \in NonNeutralEmotions \ {request.emotion} :
                      SynthesisBody([request EXCEPT !.emotion = e]) # body

(***************************************************************************)
(* Validation and the effects of a request.                                *)
(***************************************************************************)
\* the service method of the tool is a processRequest that validates
Validated == Method(tool) \in ValidatingTools \cup {"process_media"}

\* what validateRequest of the running service says of the request
Validation ==
    IF Method(tool) = "process_media"
    THEN AVValidateRequest(CurrentRequest)
    ELSE ValidateRequest(Method(tool), CurrentRequest)

\* positions at which an auth token is being fetched, an HTTP request or an
\* ffmpeg command is out, or a file is being written or has been written
EffectPcs ==
    {"auth", "post", "process", "poll_loop", "poll_get", "poll_process",
     "poll_sleep_try", "poll_sleep_catch", "save_write", "save_stat",
     "ffmpeg", "stat", "merge_write", "merge_ffmpeg", "merge_unlink",
     "merge_stat", "merge_cleanup"}

\* C24: in processRequest of the image, video, speech, music and media
\* services validation comes before every effect: a request (a part, a
\* chunk, an operation of a batch) is at the auth token, at an HTTP request,
\* at an ffmpeg command or at a file write only if validateRequest accepts
\* it; and the step that rejects it hands the validation error to the catch
\* block with no call in flight, no synthesis request made, no output file
\* and no list file written
C24_ValidationBeforeEffects ==
    /\ []((Validated /\ pc \in EffectPcs) => Validation = Valid)
    /\ [][(Validated /\ pc = "start" /\ pc' # "start" /\ Validation # Valid)
             => /\ pc' \notin EffectPcs
                /\ raised' = Error(Validation)
                /\ inflight' = 0
                /\ body' = NoBody
                /\ produced' \in {produced, <<>>}
                /\ listFile' = listFile]_vars

C24_Witness ==
    /\ tool = "generate_music"
    /\ pc = "thrown"
    /\ LyriaValidateRequest(request) # Valid
    /\ raised = Error(LyriaValidateRequest(request))
    /\ inflight = 0

(***************************************************************************)
(* The payload of a completed job.                                         *)
(***************************************************************************)
\* C25 as stated: a failure while the poller processes the payload of a
\* completed job (no first prediction, the write or the download of the
\* output file failed) reaches the caller as that failure; the poller does
\* not take it for a failed status request, so it neither sleeps nor asks
\* for the status again
C25_PayloadFailureSurfaces ==
    [][(pc = "poll_process" /\ CatchEntered)
          => /\ pc' \notin Sleeping
             /\ polls' = polls
             /\ outcome'.status = "thrown"
             /\ Contains(outcome'.error.message, raised'.message)]_vars

(***************************************************************************)
(* The two ways a result is delivered.                                     *)
(***************************************************************************)
\* C26 as stated: the response generate_video and generate_music return is
\* the same whether the prediction came in a status reply or in the predict
\* reply: it is a response the direct path gives for a prediction and the
\* submitted request, its request field is the submitted request and its
\* artifacts carry the submitted prompt
C26_PollingEqualsDirect ==
    (tool \in {"generate_video", "generate_music"}
        /\ outcome.status = "returned")
        => /\ \E p \in PredictionKinds :
              \E o \in ProcessResultOutcomes(p, request) :
                 o.error = NoError /\ o.result = outcome.result
           /\ outcome.result.request = request
           /\ \A k \in 1..Len(outcome.result.artifacts) :
                 outcome.result.artifacts[k].prompt = request.prompt

====
